---- MODULE Spec2Model ----
(***************************************************************************)
(* A model of mutagenx/mp4.py: the atom parser (Atom, Atoms), the iTunes   *)
(* tag codec (MP4Tags), the save path that splices a new ilst into the     *)
(* file and fixes sizes and offset tables, and MP4.load.                   *)
(*                                                                         *)
(* A file is a sequence of bytes (0..255); byte offset k of the file is    *)
(* element k+1 of the sequence.  Integers read from the file that do not   *)
(* fit the model checker's integers are saturated at Huge, which is larger *)
(* than every file of the model, so that every comparison the code makes   *)
(* with a position in the file has the outcome it has in the code.         *)
(***************************************************************************)
EXTENDS Integers, Sequences, FiniteSets, TLC

VARIABLES file, tags, info, loaded, hist, saves

vars == <<file, tags, info, loaded, hist, saves>>

-----------------------------------------------------------------------------
(* Bytes and struct / cdata                                                *)

Huge == 1073741824

Min(a, b) == IF a < b THEN a ELSE b
Max(a, b) == IF a > b THEN a ELSE b

Zeros(n) == IF n <= 0 THEN <<>> ELSE [i \in 1..n |-> 0]

\* bytes * n
Rep(b, n) == [i \in 1..n |-> b]

\* data[a:b] of Python: clipped to the data, empty when a >= b
Slice(data, a, b) == SubSeq(data, a + 1, Min(b, Len(data)))

\* struct.pack(">H", n)
to_ushort_be(n) == <<(n \div 256) % 256, n % 256>>

\* struct.pack(">I", n)
to_uint_be(n) ==
  <<(n \div 16777216) % 256, (n \div 65536) % 256, (n \div 256) % 256, n % 256>>

\* struct.pack(">Q", n), for n below 2^32
to_ulonglong_be(n) == <<0, 0, 0, 0>> \o to_uint_be(n)

\* struct.unpack(">H", b)
ushort_be(b) == b[1] * 256 + b[2]

\* struct.unpack(">h", b): signed
short_be(b) ==
  LET u == b[1] * 256 + b[2] IN IF u >= 32768 THEN u - 65536 ELSE u

\* struct.unpack(">I", b), saturated at Huge
uint_be(b) ==
  IF b[1] >= 64 THEN Huge
  ELSE b[1] * 16777216 + b[2] * 65536 + b[3] * 256 + b[4]

\* struct.unpack(">Q", b), saturated at Huge
ulonglong_be(b) ==
  IF b[1] # 0 \/ b[2] # 0 \/ b[3] # 0 \/ b[4] # 0 THEN Huge
  ELSE uint_be(SubSeq(b, 5, 8))

-----------------------------------------------------------------------------
(* The file object: read, write, insert_bytes                              *)

\* fileobj.seek(pos); fileobj.read(n): short at the end of the file
\* (a negative n reads to the end of the file)
Read(f, pos, n) ==
  IF n = 0 \/ pos >= Len(f) THEN <<>>
  ELSE IF n < 0 THEN SubSeq(f, pos + 1, Len(f))
  ELSE SubSeq(f, pos + 1, Min(pos + n, Len(f)))

\* fileobj.seek(pos); fileobj.write(data): overwrites, extends at the end
Write(f, pos, data) ==
  IF Len(data) = 0 THEN f
  ELSE LET base == IF pos > Len(f) THEN f \o Zeros(pos - Len(f)) ELSE f
       IN SubSeq(base, 1, pos) \o data
            \o SubSeq(base, pos + Len(data) + 1, Len(base))

\* insert_bytes(fileobj, size, offset): the file grows by size bytes at
\* offset, the suffix keeps its content and moves up by size
insert_bytes(f, size, offset) ==
  SubSeq(f, 1, offset) \o Zeros(size) \o SubSeq(f, offset + 1, Len(f))

-----------------------------------------------------------------------------
(* Atom names (FourCCs), as four bytes                                     *)

N_moov == <<109, 111, 111, 118>>
N_udta == <<117, 100, 116, 97>>
N_trak == <<116, 114, 97, 107>>
N_mdia == <<109, 100, 105, 97>>
N_meta == <<109, 101, 116, 97>>
N_ilst == <<105, 108, 115, 116>>
N_stbl == <<115, 116, 98, 108>>
N_minf == <<109, 105, 110, 102>>
N_moof == <<109, 111, 111, 102>>
N_traf == <<116, 114, 97, 102>>
N_free == <<102, 114, 101, 101>>
N_hdlr == <<104, 100, 108, 114>>
N_mdhd == <<109, 100, 104, 100>>
N_stsd == <<115, 116, 115, 100>>
N_stco == <<115, 116, 99, 111>>
N_co64 == <<99, 111, 54, 52>>
N_tfhd == <<116, 102, 104, 100>>
N_ftyp == <<102, 116, 121, 112>>
N_mdat == <<109, 100, 97, 116>>
N_data == <<100, 97, 116, 97>>
N_name == <<110, 97, 109, 101>>
N_mean == <<109, 101, 97, 110>>
N_soun == <<115, 111, 117, 110>>
N_mp4a == <<109, 112, 52, 97>>
N_esds == <<101, 115, 100, 115>>
N_mdirappl == <<109, 100, 105, 114, 97, 112, 112, 108>>

K_nam == <<169, 110, 97, 109>>
K_ART == <<169, 65, 82, 84>>
K_wrt == <<169, 119, 114, 116>>
K_alb == <<169, 97, 108, 98>>
K_gen == <<169, 103, 101, 110>>
K_gnre == <<103, 110, 114, 101>>
K_trkn == <<116, 114, 107, 110>>
K_disk == <<100, 105, 115, 107>>
K_day == <<169, 100, 97, 121>>
K_cpil == <<99, 112, 105, 108>>
K_pgap == <<112, 103, 97, 112>>
K_pcst == <<112, 99, 115, 116>>
K_tmpo == <<116, 109, 112, 111>>
K_too == <<169, 116, 111, 111>>
K_free4 == <<45, 45, 45, 45>>
K_covr == <<99, 111, 118, 114>>
K_lyr == <<169, 108, 121, 114>>
K_purl == <<112, 117, 114, 108>>
K_egid == <<101, 103, 105, 100>>
K_aART == <<97, 65, 82, 84>>
K_cmt == <<169, 99, 109, 116>>
K_xxxx == <<120, 120, 120, 120>>

_CONTAINERS ==
  {N_moov, N_udta, N_trak, N_mdia, N_meta, N_ilst, N_stbl, N_minf, N_moof,
   N_traf}

\* _SKIP_SIZE.get(name, 0)
_SKIP_SIZE(name) == IF name = N_meta THEN 4 ELSE 0

-----------------------------------------------------------------------------
(* Atom and Atoms: the parser                                              *)

\* The "4s" of struct.pack(">I4s", size, name): the first four bytes of the
\* name, filled up with zero bytes
Pack4s(name) == [i \in 1..4 |-> IF i <= Len(name) THEN name[i] ELSE 0]

\* Atom.render(name, data); every atom of the model is far below 4 GiB
AtomRender(name, data) == to_uint_be(Len(data) + 8) \o Pack4s(name) \o data

\* The header of Atom.__init__: the size field, the name, and the length the
\* size field resolves to.  err: "struct.error" (a short read),
\* "MP4MetadataError" (size 0 below the top level, size 2..7).
AtomHeader(f, pos, level) ==
  LET h == Read(f, pos, 8) IN
  IF Len(h) < 8 THEN [err |-> "struct.error", length |-> 0, hdr |-> 0,
                      name |-> <<>>]
  ELSE
    LET size == uint_be(SubSeq(h, 1, 4))
        name == SubSeq(h, 5, 8)
    IN
    IF size = 1 THEN
      LET x == Read(f, pos + 8, 8) IN
      IF Len(x) < 8 THEN [err |-> "struct.error", length |-> 0, hdr |-> 0,
                          name |-> name]
      ELSE [err |-> "none", length |-> ulonglong_be(x), hdr |-> 16,
            name |-> name]
    ELSE IF size = 0 THEN
      IF level # 0 THEN [err |-> "MP4MetadataError", length |-> 0, hdr |-> 0,
                         name |-> name]
      ELSE [err |-> "none", length |-> Len(f) - pos, hdr |-> 8, name |-> name]
    ELSE IF size < 8 THEN [err |-> "MP4MetadataError", length |-> 0,
                           hdr |-> 0, name |-> name]
    ELSE [err |-> "none", length |-> size, hdr |-> 8, name |-> name]

RECURSIVE AtomInit(_, _, _)
RECURSIVE AtomChildren(_, _, _, _, _)

\* while fileobj.tell() < self.offset + self.length:
\*     self.children.append(Atom(fileobj, level + 1))
\* A child that leaves the position where it was would be read again for
\* ever: err "diverges" stands for the loop that does not end.
AtomChildren(f, pos, end, level, acc) ==
  IF ~(pos < end) THEN [err |-> "none", children |-> acc, pos |-> pos]
  ELSE
    LET c == AtomInit(f, pos, level) IN
    IF c.err # "none" THEN [err |-> c.err, children |-> acc, pos |-> pos]
    ELSE IF c.pos <= pos THEN [err |-> "diverges", children |-> acc,
                               pos |-> pos]
    ELSE AtomChildren(f, c.pos, end, level, Append(acc, c.atom))

\* Atom.__init__(fileobj, level) with the file positioned at pos.  The
\* result holds the atom and the position the file is left at.
AtomInit(f, pos, level) ==
  LET h == AtomHeader(f, pos, level) IN
  IF h.err # "none" THEN [err |-> h.err, atom |-> <<>>, pos |-> pos]
  ELSE IF h.name \in _CONTAINERS THEN
    LET k == AtomChildren(f, pos + h.hdr + _SKIP_SIZE(h.name),
                          pos + h.length, level + 1, <<>>)
    IN [err |-> k.err,
        atom |-> [offset |-> pos, length |-> h.length, name |-> h.name,
                  container |-> TRUE, children |-> k.children],
        pos |-> k.pos]
  ELSE [err |-> "none",
        atom |-> [offset |-> pos, length |-> h.length, name |-> h.name,
                  container |-> FALSE, children |-> <<>>],
        pos |-> pos + h.length]

RECURSIVE AtomsLoop(_, _, _)
\* while fileobj.tell() + 8 <= end: self.atoms.append(Atom(fileobj))
AtomsLoop(f, pos, acc) ==
  IF ~(pos + 8 <= Len(f)) THEN [err |-> "none", atoms |-> acc]
  ELSE
    LET a == AtomInit(f, pos, 0) IN
    IF a.err # "none" THEN [err |-> a.err, atoms |-> acc]
    ELSE IF a.pos <= pos THEN [err |-> "diverges", atoms |-> acc]
    ELSE AtomsLoop(f, a.pos, Append(acc, a.atom))

\* Atoms(fileobj)
Atoms(f) == AtomsLoop(f, 0, <<>>)

\* The first element of a list of atoms with the given name, 0 when none
FirstNamed(children, name) ==
  LET hits == {i \in 1..Len(children) : children[i].name = name}
  IN IF hits = {} THEN 0 ELSE CHOOSE i \in hits : \A j \in hits : i <= j

RECURSIVE PathFrom(_, _)
\* The chain children[name1], [name2], ... as a list of atoms; <<>> stands
\* for KeyError (a name is missing, or an atom on the way is no container).
PathFrom(children, names) ==
  IF names = <<>> THEN <<>>
  ELSE
    LET i == FirstNamed(children, Head(names)) IN
    IF i = 0 THEN <<>>
    ELSE IF Len(names) = 1 THEN <<children[i]>>
    ELSE
      LET rest == PathFrom(children[i].children, Tail(names)) IN
      IF rest = <<>> THEN <<>> ELSE <<children[i]>> \o rest

\* Atoms.path(*names): every atom on the way; <<>> for KeyError
AtomsPath(atoms, names) == PathFrom(atoms, names)

\* Atoms.__getitem__(names) / Atom.__getitem__: the last atom of the path;
\* callers test the path for <<>> (KeyError) first
AtomsGetItem(atoms, names) ==
  LET p == PathFrom(atoms, names) IN p[Len(p)]

RECURSIVE FindallList(_, _)
RECURSIVE Findall(_, _)
FindallList(children, name) ==
  IF children = <<>> THEN <<>>
  ELSE (IF Head(children).name = name THEN <<Head(children)>> ELSE <<>>)
         \o Findall(Head(children), name)
         \o FindallList(Tail(children), name)

\* atom.findall(name, True): in document order, depth first
Findall(atom, name) == FindallList(atom.children, name)

-----------------------------------------------------------------------------
(* Tag values                                                              *)
(*                                                                         *)
(* A tag value is [k, v]: k is the Python type of the value and v its      *)
(* content as a list of lists of integers:                                 *)
(*   "text"     a list of str, each a list of code points                  *)
(*   "str"      one str                                                    *)
(*   "pairs"    a list of 2-tuples of int                                  *)
(*   "ints"     a list of int, each <<n>>                                  *)
(*   "int"      one int, <<n>> (not a list)                                *)
(*   "bool"     a bool, << <<0>> >> or << <<1>> >>                         *)
(*   "covers"   a list of MP4Cover, each <<imageformat>> \o bytes          *)
(*   "freeform" a list of MP4FreeForm, each <<dataformat>> \o bytes        *)
(* The tag map (a dict, which keeps the order of insertion) is a list of   *)
(* [key, val] with distinct keys.                                          *)

FORMAT_JPEG == 13
FORMAT_PNG == 14
FORMAT_DATA == 0
FORMAT_TEXT == 1

Val(k, v) == [k |-> k, v |-> v]

\* key in self
DictHas(d, key) == \E i \in 1..Len(d) : d[i].key = key

\* self[key]
DictGet(d, key) == d[CHOOSE i \in 1..Len(d) : d[i].key = key].val

\* self[key] = val: a present key keeps its place, a new key goes last
DictSet(d, key, val) ==
  IF DictHas(d, key)
  THEN [i \in 1..Len(d) |->
          IF d[i].key = key THEN [key |-> key, val |-> val] ELSE d[i]]
  ELSE Append(d, [key |-> key, val |-> val])

\* The dict as a mapping, without the order of insertion
DictItems(d) == {d[i] : i \in 1..Len(d)}

RECURSIVE Concat(_)
\* b"".join(list)
Concat(list) == IF list = <<>> THEN <<>> ELSE Head(list) \o Concat(Tail(list))

-----------------------------------------------------------------------------
(* UTF-8                                                                   *)

REPLACEMENT == 65533

\* str.encode("utf-8") of one code point
EncodeCp(c) ==
  IF c < 128 THEN <<c>>
  ELSE IF c < 2048 THEN <<192 + (c \div 64), 128 + (c % 64)>>
  ELSE IF c < 65536
    THEN <<224 + (c \div 4096), 128 + ((c \div 64) % 64), 128 + (c % 64)>>
  ELSE <<240 + (c \div 262144), 128 + ((c \div 4096) % 64),
         128 + ((c \div 64) % 64), 128 + (c % 64)>>

\* The end of the run of values below 128 that starts at i: the first
\* place from i on that holds a value of 128 or more, Len(s) + 1 if none
RunEnd(s, i) ==
  IF \A k \in i..Len(s) : s[k] < 128 THEN Len(s) + 1
  ELSE CHOOSE k \in i..Len(s) :
         s[k] >= 128 /\ \A l \in i..(k - 1) : s[l] < 128

RECURSIVE EncodeFrom(_, _)
\* str.encode("utf-8") from index i on; a run of ASCII is its own encoding
EncodeFrom(s, i) ==
  IF i > Len(s) THEN <<>>
  ELSE IF s[i] < 128
    THEN SubSeq(s, i, RunEnd(s, i) - 1) \o EncodeFrom(s, RunEnd(s, i))
  ELSE EncodeCp(s[i]) \o EncodeFrom(s, i + 1)

\* str.encode("utf-8")
EncodeUtf8(s) == EncodeFrom(s, 1)

\* How many continuation bytes the lead byte b asks for (-1: no lead byte)
Utf8Need(b) ==
  IF b < 128 THEN 0
  ELSE IF b >= 194 /\ b <= 223 THEN 1
  ELSE IF b >= 224 /\ b <= 239 THEN 2
  ELSE IF b >= 240 /\ b <= 244 THEN 3
  ELSE -1

\* Whether c is a valid k-th continuation byte after the lead byte b
Utf8ContOk(b, k, c) ==
  IF k > 1 THEN c >= 128 /\ c <= 191
  ELSE IF b = 224 THEN c >= 160 /\ c <= 191
  ELSE IF b = 237 THEN c >= 128 /\ c <= 159
  ELSE IF b = 240 THEN c >= 144 /\ c <= 191
  ELSE IF b = 244 THEN c >= 128 /\ c <= 143
  ELSE c >= 128 /\ c <= 191

\* The number of valid continuation bytes that follow data[i], at most n
Utf8Good(data, i, n) ==
  LET ok(k) == i + k <= Len(data) /\ Utf8ContOk(data[i], k, data[i + k])
      bad == {k \in 1..n : ~ok(k)}
  IN IF bad = {} THEN n ELSE (CHOOSE k \in bad : \A j \in bad : k <= j) - 1

RECURSIVE DecodeFrom(_, _)
\* bytes.decode("utf-8", "replace") from index i on: an invalid byte, or a
\* sequence cut short, becomes one U+FFFD
DecodeFrom(data, i) ==
  IF i > Len(data) THEN <<>>
  ELSE
    LET b == data[i]
        n == Utf8Need(b)
    IN
    IF n = 0
    THEN SubSeq(data, i, RunEnd(data, i) - 1)
           \o DecodeFrom(data, RunEnd(data, i))
    ELSE IF n = -1 THEN <<REPLACEMENT>> \o DecodeFrom(data, i + 1)
    ELSE
      LET g == Utf8Good(data, i, n) IN
      IF g < n THEN <<REPLACEMENT>> \o DecodeFrom(data, i + g + 1)
      ELSE
        LET cp == IF n = 1 THEN (b - 192) * 64 + (data[i + 1] - 128)
                  ELSE IF n = 2
                    THEN (b - 224) * 4096 + (data[i + 1] - 128) * 64
                           + (data[i + 2] - 128)
                  ELSE (b - 240) * 262144 + (data[i + 1] - 128) * 4096
                         + (data[i + 2] - 128) * 64 + (data[i + 3] - 128)
        IN <<cp>> \o DecodeFrom(data, i + n + 1)

\* text.decode("utf-8", "replace")
DecodeUtf8(data) == DecodeFrom(data, 1)

\* mutagenx._util.utf8(v) of a str
utf8(s) == EncodeUtf8(s)

-----------------------------------------------------------------------------
(* MP4Tags: the parsers.  Each takes the tag map and gives [err, tags].    *)
(* err: "none", "MP4MetadataError", "struct.error", "IndexError",          *)
(* "diverges" (a sub-atom of size 0, over which the loop does not advance) *)

\* mutagenx._constants.GENRES: the ID3v1 genre names, of which the model
\* keeps the first ones, Blues to Rock
GENRES ==
  <<<<66, 108, 117, 101, 115>>,
    <<67, 108, 97, 115, 115, 105, 99, 32, 82, 111, 99, 107>>,
    <<67, 111, 117, 110, 116, 114, 121>>,
    <<68, 97, 110, 99, 101>>,
    <<68, 105, 115, 99, 111>>,
    <<70, 117, 110, 107>>,
    <<71, 114, 117, 110, 103, 101>>,
    <<72, 105, 112, 45, 72, 111, 112>>,
    <<74, 97, 122, 122>>,
    <<77, 101, 116, 97, 108>>,
    <<78, 101, 119, 32, 65, 103, 101>>,
    <<79, 108, 100, 105, 101, 115>>,
    <<79, 116, 104, 101, 114>>,
    <<80, 111, 112>>,
    <<82, 38, 66>>,
    <<82, 97, 112>>,
    <<82, 101, 103, 103, 97, 101>>,
    <<82, 111, 99, 107>>>>

Ok(t) == [err |-> "none", tags |-> t]
Fail(e, t) == [err |-> e, tags |-> t]

RECURSIVE ParseDataFrom(_, _, _, _)
ParseDataFrom(atom, data, pos, acc) ==
  IF ~(pos < atom.length - 8) THEN [err |-> "none", items |-> acc]
  ELSE
    LET h == Slice(data, pos, pos + 12) IN
    IF Len(h) < 12 THEN [err |-> "struct.error", items |-> acc]
    ELSE
      LET length == uint_be(SubSeq(h, 1, 4))
          name == SubSeq(h, 5, 8)
          flags == uint_be(SubSeq(h, 9, 12))
      IN
      IF name # N_data THEN [err |-> "MP4MetadataError", items |-> acc]
      ELSE IF length = 0 THEN [err |-> "diverges", items |-> acc]
      ELSE ParseDataFrom(atom, data, pos + length,
             Append(acc, [flags |-> flags,
                          data |-> Slice(data, pos + 16, pos + length)]))

\* MP4Tags.__parse_data(atom, data): the (flags, payload) of every data
\* sub-atom
ParseData(atom, data) == ParseDataFrom(atom, data, 0, <<>>)

RECURSIVE ParseFreeformFrom(_, _, _, _)
ParseFreeformFrom(atom, data, pos, acc) ==
  IF ~(pos < atom.length - 8) THEN [err |-> "none", items |-> acc]
  ELSE
    LET h == Slice(data, pos, pos + 8) IN
    IF Len(h) < 8 THEN [err |-> "struct.error", items |-> acc]
    ELSE
      LET length == uint_be(SubSeq(h, 1, 4))
          atom_name == SubSeq(h, 5, 8)
      IN
      IF atom_name # N_data THEN [err |-> "MP4MetadataError", items |-> acc]
      ELSE IF pos + 8 >= Len(data) THEN [err |-> "IndexError", items |-> acc]
      ELSE IF data[pos + 9] # 0
        THEN [err |-> "MP4MetadataError", items |-> acc]
      ELSE IF Len(Slice(data, pos + 9, pos + 12)) < 3
        THEN [err |-> "struct.error", items |-> acc]
      ELSE IF length = 0 THEN [err |-> "diverges", items |-> acc]
      ELSE
        LET flags == uint_be(<<0>> \o Slice(data, pos + 9, pos + 12)) IN
        ParseFreeformFrom(atom, data, pos + length,
          Append(acc, <<flags>> \o Slice(data, pos + 16, pos + length)))

\* MP4Tags.__parse_freeform(atom, data)
ParseFreeform(t, atom, data) ==
  IF Len(Slice(data, 0, 4)) < 4 THEN Fail("struct.error", t)
  ELSE
    LET length1 == uint_be(Slice(data, 0, 4))
        mean == Slice(data, 12, length1)
        pos1 == length1
    IN
    IF Len(Slice(data, pos1, pos1 + 4)) < 4 THEN Fail("struct.error", t)
    ELSE
      LET length2 == uint_be(Slice(data, pos1, pos1 + 4))
          name == Slice(data, pos1 + 12, pos1 + length2)
          r == ParseFreeformFrom(atom, data, pos1 + length2, <<>>)
      IN
      IF r.err # "none" THEN Fail(r.err, t)
      ELSE IF r.items = <<>> THEN Ok(t)
      ELSE Ok(DictSet(t, atom.name \o <<58>> \o mean \o <<58>> \o name,
                      Val("freeform", r.items)))

\* MP4Tags.__parse_pair(atom, data)
ParsePair(t, atom, data) ==
  LET r == ParseData(atom, data) IN
  IF r.err # "none" THEN Fail(r.err, t)
  ELSE IF \E i \in 1..Len(r.items) : Len(Slice(r.items[i].data, 2, 6)) # 4
    THEN Fail("struct.error", t)
  ELSE Ok(DictSet(t, atom.name,
            Val("pairs", [i \in 1..Len(r.items) |->
                   <<ushort_be(SubSeq(r.items[i].data, 3, 4)),
                     ushort_be(SubSeq(r.items[i].data, 5, 6))>>])))

\* GENRES[i] of Python for an index i that may be negative; <<>> stands for
\* IndexError
GenreAt(i) ==
  IF i >= 0 /\ i < Len(GENRES) THEN <<GENRES[i + 1]>>
  ELSE IF i < 0 /\ i >= -Len(GENRES) THEN <<GENRES[Len(GENRES) + i + 1]>>
  ELSE <<>>

\* __parse_genre without its test for a ©gen that is there already
ParseGenre_overriding(t, atom, data) ==
  IF Len(Slice(data, 16, 18)) < 2 THEN Fail("struct.error", t)
  ELSE IF GenreAt(short_be(Slice(data, 16, 18)) - 1) = <<>> THEN Ok(t)
  ELSE Ok(DictSet(t, K_gen,
            Val("text", GenreAt(short_be(Slice(data, 16, 18)) - 1))))

\* MP4Tags.__parse_genre(atom, data)
ParseGenre(t, atom, data) ==
  IF Len(Slice(data, 16, 18)) < 2 THEN Fail("struct.error", t)
  ELSE
    LET genre == short_be(Slice(data, 16, 18)) IN
    IF DictHas(t, K_gen) THEN Ok(t)
    ELSE IF GenreAt(genre - 1) = <<>> THEN Ok(t)
    ELSE Ok(DictSet(t, K_gen, Val("text", GenreAt(genre - 1))))

\* MP4Tags.__parse_tempo(atom, data)
ParseTempo(t, atom, data) ==
  LET r == ParseData(atom, data) IN
  IF r.err # "none" THEN Fail(r.err, t)
  ELSE IF \E i \in 1..Len(r.items) : Len(r.items[i].data) # 2
    THEN Fail("struct.error", t)
  ELSE Ok(DictSet(t, atom.name,
            Val("ints", [i \in 1..Len(r.items) |->
                           <<ushort_be(r.items[i].data)>>])))

\* MP4Tags.__parse_bool(atom, data)
ParseBool(t, atom, data) ==
  Ok(DictSet(t, atom.name,
       Val("bool", IF Len(data) > 16 /\ data[17] # 0 THEN << <<1>> >>
                   ELSE << <<0>> >>)))

RECURSIVE ParseCoverFrom(_, _, _, _)
ParseCoverFrom(atom, data, pos, acc) ==
  IF ~(pos < atom.length - 8) THEN [err |-> "none", items |-> acc]
  ELSE
    LET h == Slice(data, pos, pos + 12) IN
    IF Len(h) < 12 THEN [err |-> "struct.error", items |-> acc]
    ELSE
      LET length == uint_be(SubSeq(h, 1, 4))
          name == SubSeq(h, 5, 8)
          imageformat == uint_be(SubSeq(h, 9, 12))
      IN
      IF length = 0 THEN
        IF name = N_data \/ name = N_name
        THEN [err |-> "diverges", items |-> acc]
        ELSE [err |-> "MP4MetadataError", items |-> acc]
      ELSE IF name # N_data THEN
        IF name = N_name THEN ParseCoverFrom(atom, data, pos + length, acc)
        ELSE [err |-> "MP4MetadataError", items |-> acc]
      ELSE
        ParseCoverFrom(atom, data, pos + length,
          Append(acc,
            <<IF imageformat \in {FORMAT_JPEG, FORMAT_PNG} THEN imageformat
              ELSE FORMAT_JPEG>> \o Slice(data, pos + 16, pos + length)))

\* MP4Tags.__parse_cover(atom, data)
ParseCover(t, atom, data) ==
  LET r == ParseCoverFrom(atom, data, 0, <<>>) IN
  IF r.err # "none"
  THEN Fail(r.err, DictSet(t, atom.name, Val("covers", r.items)))
  ELSE Ok(DictSet(t, atom.name, Val("covers", r.items)))

RECURSIVE TextOf(_, _)
\* [text.decode("utf-8", "replace") for flags, text in items
\*  if flags == expected_flags]
TextOf(items, expected_flags) ==
  IF items = <<>> THEN <<>>
  ELSE (IF Head(items).flags = expected_flags
        THEN <<DecodeUtf8(Head(items).data)>> ELSE <<>>)
         \o TextOf(Tail(items), expected_flags)

\* MP4Tags.__parse_text(atom, data, expected_flags)
ParseText(t, atom, data, expected_flags) ==
  LET r == ParseData(atom, data) IN
  IF r.err # "none" THEN Fail(r.err, t)
  ELSE
    LET value == TextOf(r.items, expected_flags) IN
    IF value = <<>> THEN Ok(t)
    ELSE Ok(DictSet(t, atom.name, Val("text", value)))

\* info = self.__atoms.get(atom.name, (type(self).__parse_text, None));
\* info[0](self, atom, data, *info[2:])
ParseAtom(t, atom, data) ==
  IF atom.name = K_free4 THEN ParseFreeform(t, atom, data)
  ELSE IF atom.name \in {K_trkn, K_disk} THEN ParsePair(t, atom, data)
  ELSE IF atom.name = K_gnre THEN ParseGenre(t, atom, data)
  ELSE IF atom.name = K_tmpo THEN ParseTempo(t, atom, data)
  ELSE IF atom.name \in {K_cpil, K_pgap, K_pcst} THEN ParseBool(t, atom, data)
  ELSE IF atom.name = K_covr THEN ParseCover(t, atom, data)
  ELSE IF atom.name \in {K_purl, K_egid} THEN ParseText(t, atom, data, 0)
  ELSE ParseText(t, atom, data, 1)

RECURSIVE LoadChildren(_, _, _)
LoadChildren(f, children, t) ==
  IF children = <<>> THEN Ok(t)
  ELSE
    LET atom == Head(children)
        data == Read(f, atom.offset + 8, atom.length - 8)
        r == ParseAtom(t, atom, data)
    IN IF r.err # "none" THEN r ELSE LoadChildren(f, Tail(children), r.tags)

IlstPath == <<N_moov, N_udta, N_meta, N_ilst>>

\* MP4Tags.load(atoms, fileobj) into an empty tag map
TagsLoad(atoms, f) ==
  IF AtomsPath(atoms, IlstPath) = <<>> THEN Fail("MP4MetadataError", <<>>)
  ELSE LoadChildren(f, AtomsGetItem(atoms, IlstPath).children, <<>>)

-----------------------------------------------------------------------------
(* MP4Tags: the renderers.  Each gives [err, data]; err is "none" or       *)
(* "MP4MetadataValueError" (raised, or a TypeError or ValueError that save *)
(* turns into it).                                                         *)

Rendered(data) == [err |-> "none", data |-> data]
ValueError == [err |-> "MP4MetadataValueError", data |-> <<>>]

IsList(val) ==
  val.k \in {"text", "blist", "pairs", "ints", "covers", "freeform"}

\* MP4Tags.__render_data(key, flags, value)
RenderData(key, flags, value) ==
  AtomRender(key,
    Concat([i \in 1..Len(value) |->
              AtomRender(N_data,
                to_uint_be(flags) \o to_uint_be(0) \o value[i])]))

\* The places of the byte b in data
Places(data, b) == {i \in 1..Len(data) : data[i] = b}

\* MP4Tags.__render_freeform(key, value)
RenderFreeform(key, val) ==
  LET colons == Places(key, 58) IN
  IF Cardinality(colons) < 2 THEN ValueError
  ELSE
    LET c1 == CHOOSE i \in colons : \A j \in colons : i <= j
        c2 == CHOOSE i \in colons \ {c1} : \A j \in colons \ {c1} : i <= j
        mean == SubSeq(key, c1 + 1, c2 - 1)
        name == SubSeq(key, c2 + 1, Len(key))
        meanbox == to_uint_be(Len(mean) + 12) \o N_mean \o to_uint_be(0) \o mean
        namebox == to_uint_be(Len(name) + 12) \o N_name \o to_uint_be(0) \o name
        one(flags, v) ==
          to_uint_be(Len(v) + 16) \o N_data \o to_uint_be(flags)
            \o to_uint_be(0) \o v
    IN
    IF val.k = "freeform" THEN
      Rendered(AtomRender(K_free4, meanbox \o namebox \o
        Concat([i \in 1..Len(val.v) |->
                  one(Head(val.v[i]), Tail(val.v[i]))])))
    ELSE IF val.k = "covers" THEN
      Rendered(AtomRender(K_free4, meanbox \o namebox \o
        Concat([i \in 1..Len(val.v) |-> one(FORMAT_TEXT, Tail(val.v[i]))])))
    ELSE IF val.k = "blist" THEN
      Rendered(AtomRender(K_free4, meanbox \o namebox \o
        Concat([i \in 1..Len(val.v) |-> one(FORMAT_TEXT, val.v[i])])))
    ELSE IF IsList(val) /\ val.v = <<>> THEN
      Rendered(AtomRender(K_free4, meanbox \o namebox))
    ELSE ValueError

PairOk(p) == 0 <= p[1] /\ p[1] < 65536 /\ 0 <= p[2] /\ p[2] < 65536

\* MP4Tags.__render_pair(key, value)
RenderPair(key, val) ==
  IF IsList(val) /\ val.v = <<>> THEN Rendered(RenderData(key, 0, <<>>))
  ELSE IF val.k # "pairs" THEN ValueError
  ELSE IF \E i \in 1..Len(val.v) : ~PairOk(val.v[i]) THEN ValueError
  ELSE Rendered(RenderData(key, 0,
         [i \in 1..Len(val.v) |->
            to_ushort_be(0) \o to_ushort_be(val.v[i][1])
              \o to_ushort_be(val.v[i][2]) \o to_ushort_be(0)]))

\* MP4Tags.__render_pair_no_trailing(key, value)
RenderPairNoTrailing(key, val) ==
  IF IsList(val) /\ val.v = <<>> THEN Rendered(RenderData(key, 0, <<>>))
  ELSE IF val.k # "pairs" THEN ValueError
  ELSE IF \E i \in 1..Len(val.v) : ~PairOk(val.v[i]) THEN ValueError
  ELSE Rendered(RenderData(key, 0,
         [i \in 1..Len(val.v) |->
            to_ushort_be(0) \o to_ushort_be(val.v[i][1])
              \o to_ushort_be(val.v[i][2])]))

\* MP4Tags.__render_tempo(key, value)
RenderTempo(key, val) ==
  IF ~IsList(val) THEN ValueError
  ELSE IF val.v = <<>> THEN Rendered(RenderData(key, 21, <<>>))
  ELSE IF val.k # "ints" THEN ValueError
  ELSE IF \E i \in 1..Len(val.v) : val.v[i][1] < 0 \/ val.v[i][1] >= 65536
    THEN ValueError
  ELSE Rendered(RenderData(key, 21,
         [i \in 1..Len(val.v) |-> to_ushort_be(val.v[i][1])]))

\* bool(value) of Python
Truth(val) ==
  IF val.k \in {"bool", "int"} THEN val.v[1][1] # 0
  ELSE IF val.k = "str" THEN val.v[1] # <<>>
  ELSE val.v # <<>>

\* MP4Tags.__render_bool(key, value)
RenderBool(key, val) ==
  Rendered(RenderData(key, 21, << <<IF Truth(val) THEN 1 ELSE 0>> >>))

\* MP4Tags.__render_cover(key, value)
RenderCover(key, val) ==
  IF val.k = "covers" THEN
    Rendered(AtomRender(key,
      Concat([i \in 1..Len(val.v) |->
        AtomRender(N_data, to_uint_be(Head(val.v[i])) \o to_uint_be(0)
                             \o Tail(val.v[i]))])))
  ELSE IF val.k \in {"freeform", "blist"} THEN
    Rendered(AtomRender(key,
      Concat([i \in 1..Len(val.v) |->
        AtomRender(N_data, to_uint_be(FORMAT_JPEG) \o to_uint_be(0)
          \o (IF val.k = "freeform" THEN Tail(val.v[i]) ELSE val.v[i]))])))
  ELSE IF IsList(val) /\ val.v = <<>> THEN Rendered(AtomRender(key, <<>>))
  ELSE ValueError

\* MP4Tags.__render_text(key, value, flags)
RenderText(key, val, flags) ==
  IF val.k \in {"text", "str"} THEN
    Rendered(RenderData(key, flags,
      [i \in 1..Len(val.v) |-> utf8(val.v[i])]))
  ELSE IF val.k = "blist" THEN
    Rendered(RenderData(key, flags,
      [i \in 1..Len(val.v) |-> EncodeUtf8(DecodeUtf8(val.v[i]))]))
  ELSE IF val.k \in {"covers", "freeform"} THEN
    Rendered(RenderData(key, flags,
      [i \in 1..Len(val.v) |-> EncodeUtf8(DecodeUtf8(Tail(val.v[i])))]))
  ELSE IF IsList(val) /\ val.v = <<>> THEN
    Rendered(RenderData(key, flags, <<>>))
  ELSE ValueError

\* key[:4]
Key4(key) == SubSeq(key, 1, Min(4, Len(key)))

\* save with no renderer for the keys that have no codec of their own:
\* their tags are left out
RenderTag_dropping(key, val) ==
  IF Key4(key) = K_free4 THEN RenderFreeform(key, val)
  ELSE IF Key4(key) = K_trkn THEN RenderPair(key, val)
  ELSE IF Key4(key) = K_disk THEN RenderPairNoTrailing(key, val)
  ELSE IF Key4(key) = K_gnre THEN ValueError
  ELSE IF Key4(key) = K_tmpo THEN RenderTempo(key, val)
  ELSE IF Key4(key) \in {K_cpil, K_pgap, K_pcst} THEN RenderBool(key, val)
  ELSE IF Key4(key) = K_covr THEN RenderCover(key, val)
  ELSE IF Key4(key) \in {K_purl, K_egid} THEN RenderText(key, val, 0)
  ELSE Rendered(<<>>)

\* info = self.__atoms.get(key[:4], (None, type(self).__render_text));
\* info[1](self, key, value, *info[2:]): gnre has no renderer (None), and
\* calling it is a TypeError
RenderTag(key, val) ==
  LET k4 == Key4(key) IN
  IF k4 = K_free4 THEN RenderFreeform(key, val)
  ELSE IF k4 = K_trkn THEN RenderPair(key, val)
  ELSE IF k4 = K_disk THEN RenderPairNoTrailing(key, val)
  ELSE IF k4 = K_gnre THEN ValueError
  ELSE IF k4 = K_tmpo THEN RenderTempo(key, val)
  ELSE IF k4 \in {K_cpil, K_pgap, K_pcst} THEN RenderBool(key, val)
  ELSE IF k4 = K_covr THEN RenderCover(key, val)
  ELSE IF k4 \in {K_purl, K_egid} THEN RenderText(key, val, 0)
  ELSE RenderText(key, val, 1)

-----------------------------------------------------------------------------
(* The order of the tags in the ilst                                       *)

order ==
  <<K_nam, K_ART, K_wrt, K_alb, K_gen, K_gnre, K_trkn, K_disk, K_day, K_cpil,
    K_pgap, K_pcst, K_tmpo, K_too, K_free4, K_covr, K_lyr>>

\* order.get(key[:4], last)
Rank(key) ==
  LET hits == {i \in 1..Len(order) : order[i] = Key4(key)} IN
  IF hits = {} THEN Len(order) ELSE (CHOOSE i \in hits : TRUE) - 1

\* len(v), 0 when v has no len()
SortLength(val) ==
  IF val.k \in {"bool", "int"} THEN 0
  ELSE IF val.k = "str" THEN Len(val.v[1])
  ELSE Len(val.v)

\* The value as Python compares it: an MP4Cover or MP4FreeForm is compared
\* as its bytes, without its format
Comparable(val) ==
  IF val.k \in {"covers", "freeform"}
  THEN [i \in 1..Len(val.v) |-> Tail(val.v[i])]
  ELSE val.v

\* a < b for two sequences of integers (str, bytes, tuple): at the first
\* place where they differ, or the shorter one when it is a prefix
SeqLess(a, b) ==
  \/ \E i \in 1..Min(Len(a), Len(b)) :
       /\ a[i] < b[i]
       /\ \A j \in 1..(i - 1) : a[j] = b[j]
  \/ /\ Len(a) < Len(b)
     /\ \A j \in 1..Len(a) : a[j] = b[j]

RECURSIVE ListLess(_, _)
\* a < b for two lists of such sequences
ListLess(a, b) ==
  IF b = <<>> THEN FALSE
  ELSE IF a = <<>> THEN TRUE
  ELSE IF Head(a) # Head(b) THEN SeqLess(Head(a), Head(b))
  ELSE ListLess(Tail(a), Tail(b))

\* MP4Tags.__get_sort_stats(a) < MP4Tags.__get_sort_stats(b), for items
\* whose values Python can compare when rank and length are equal
get_sort_stats_less(a, b) ==
  \/ Rank(a.key) < Rank(b.key)
  \/ /\ Rank(a.key) = Rank(b.key)
     /\ \/ SortLength(a.val) < SortLength(b.val)
        \/ /\ SortLength(a.val) = SortLength(b.val)
           /\ ListLess(Comparable(a.val), Comparable(b.val))

RECURSIVE InsertSorted(_, _)
\* x goes behind every element that is not greater than it
InsertSorted(sorted, x) ==
  IF sorted = <<>> THEN <<x>>
  ELSE IF get_sort_stats_less(x, Head(sorted)) THEN <<x>> \o sorted
  ELSE <<Head(sorted)>> \o InsertSorted(Tail(sorted), x)

RECURSIVE SortedFrom(_, _)
SortedFrom(items, acc) ==
  IF items = <<>> THEN acc
  ELSE SortedFrom(Tail(items), InsertSorted(acc, Head(items)))

\* sorted(self.items(), key=MP4Tags.__get_sort_stats): stable, so items
\* with equal keys stay in the dict's order
SortedItems(t) == SortedFrom(t, <<>>)

RECURSIVE RenderAll(_, _)
\* for key, value in items: values.append(info[1](self, key, value, ...))
RenderAll(items, acc) ==
  IF items = <<>> THEN Rendered(acc)
  ELSE
    LET r == RenderTag(Head(items).key, Head(items).val) IN
    IF r.err # "none" THEN r ELSE RenderAll(Tail(items), acc \o r.data)

\* The first part of MP4Tags.save: data = Atom.render(b"ilst", ...), or the
\* error raised before the file is opened
RenderIlst(t) ==
  LET r == RenderAll(SortedItems(t), <<>>) IN
  IF r.err # "none" THEN r ELSE Rendered(AtomRender(N_ilst, r.data))

-----------------------------------------------------------------------------
(* MP4Tags.save: the splice and the fix-ups.  A step on the open file      *)
(* gives [err, file]; after an error the later steps do not run and the    *)
(* file stays as the earlier steps left it.                                *)

PAD_MASK == 1023

Step(f) == [err |-> "none", file |-> f]
StepFail(e, f) == [err |-> e, file |-> f]

RECURSIVE AddAt(_, _, _)
AddAt(b, i, carry) ==
  IF i = 0 THEN (IF carry = 0 THEN b ELSE <<>>)
  ELSE LET sum == b[i] + carry
       IN AddAt([b EXCEPT ![i] = sum % 256], i - 1, sum \div 256)

\* The big-endian number b plus d >= 0 in the width of b, as struct.pack
\* gives it; <<>> when the sum does not fit the width (struct.error)
AddBE(b, d) == AddAt(b, Len(b), d)

\* (len(data) + 1023) & ~1023
RoundUp(n) == ((n + PAD_MASK) \div (PAD_MASK + 1)) * (PAD_MASK + 1)

\* MP4Tags.__pad_ilst(data), length=None
pad_ilst(data) == AtomRender(N_free, Zeros(RoundUp(Len(data)) - Len(data)))

\* MP4Tags.__pad_ilst(data, length)
pad_ilst_length(data, length) == AtomRender(N_free, Zeros(length))

\* One round of the loop of __update_parents
UpdateParent(f, atom, delta) ==
  LET s4 == Read(f, atom.offset, 4) IN
  IF Len(s4) < 4 THEN StepFail("struct.error", f)
  ELSE IF uint_be(s4) = 1 THEN
    LET x == Slice(Read(f, atom.offset + 4, 12), 4, 12) IN
    IF Len(x) < 8 \/ AddBE(x, delta) = <<>> THEN StepFail("struct.error", f)
    ELSE Step(Write(f, atom.offset + 8, AddBE(x, delta)))
  ELSE
    IF AddBE(s4, delta) = <<>> THEN StepFail("struct.error", f)
    ELSE Step(Write(f, atom.offset, AddBE(s4, delta)))

RECURSIVE update_parents(_, _, _)
\* The loop of __update_parents goes on after the round that gave r
ParentsAfter(r, path, delta) ==
  IF r.err # "none" THEN r ELSE update_parents(r.file, path, delta)

\* MP4Tags.__update_parents(fileobj, path, delta)
update_parents(f, path, delta) ==
  IF path = <<>> THEN Step(f)
  ELSE ParentsAfter(UpdateParent(f, Head(path), delta), Tail(path), delta)

\* The entry o of an offset table after the fix-up
ShiftEntry(e, delta, offset) ==
  LET o == IF Len(e) = 4 THEN uint_be(e) ELSE ulonglong_be(e) IN
  IF offset < o THEN AddBE(e, delta) ELSE e

\* The body of __update_offset_table from fileobj.seek(atom.offset + 12) on,
\* with aoff the value atom.offset has there
OffsetTableAt(f, width, aoff, length, delta, offset) ==
  LET data == Read(f, aoff + 12, length - 12) IN
  IF Len(data) < 4 THEN StepFail("struct.error", f)
  ELSE
    LET count == uint_be(SubSeq(data, 1, 4))
        body == SubSeq(data, 5, Len(data))
    IN
    IF count > Len(body) \/ count * width # Len(body)
    THEN StepFail("struct.error", f)
    ELSE
      LET offsets == [i \in 1..count |->
             ShiftEntry(SubSeq(body, (i - 1) * width + 1, i * width),
                        delta, offset)]
      IN
      IF \E i \in 1..count : offsets[i] = <<>>
      THEN StepFail("struct.error", f)
      ELSE Step(Write(f, aoff + 16, Concat(offsets)))

\* MP4Tags.__update_offset_table(fileobj, fmt, atom, delta, offset), with
\* width 4 for ">{:d}I" and 8 for ">{:d}Q"
update_offset_table(f, width, atom, delta, offset) ==
  OffsetTableAt(f, width,
                IF atom.offset > offset THEN atom.offset + delta
                ELSE atom.offset,
                atom.length, delta, offset)

\* MP4Tags.__update_tfhd(fileobj, atom, delta, offset)
update_tfhd(f, atom, delta, offset) ==
  LET aoff == IF atom.offset > offset THEN atom.offset + delta
              ELSE atom.offset
      data == Read(f, aoff + 9, atom.length - 9)
  IN
  IF Len(data) < 3 THEN StepFail("struct.error", f)
  ELSE IF data[3] % 2 = 1 THEN
    LET e == Slice(data, 7, 15) IN
    IF Len(e) < 8 THEN StepFail("struct.error", f)
    ELSE IF ulonglong_be(e) > offset THEN
      IF AddBE(e, delta) = <<>> THEN StepFail("struct.error", f)
      ELSE Step(Write(f, aoff + 16, AddBE(e, delta)))
    ELSE Step(Write(f, aoff + 16, e))
  ELSE Step(f)

RECURSIVE UpdateTables(_, _, _, _, _)
\* for atom in moov.findall(name, True): self.__update_offset_table(...),
\* after the round that gave r
TablesAfter(r, width, found, delta, offset) ==
  IF r.err # "none" THEN r
  ELSE UpdateTables(r.file, width, found, delta, offset)

UpdateTables(f, width, found, delta, offset) ==
  IF found = <<>> THEN Step(f)
  ELSE TablesAfter(update_offset_table(f, width, Head(found), delta, offset),
                   width, Tail(found), delta, offset)

RECURSIVE UpdateTfhds(_, _, _, _)
\* for atom in moof.findall('tfhd', True): self.__update_tfhd(...), after
\* the round that gave r
TfhdsAfter(r, found, delta, offset) ==
  IF r.err # "none" THEN r ELSE UpdateTfhds(r.file, found, delta, offset)

UpdateTfhds(f, found, delta, offset) ==
  IF found = <<>> THEN Step(f)
  ELSE TfhdsAfter(update_tfhd(f, Head(found), delta, offset),
                  Tail(found), delta, offset)

\* The name 'tfhd' that __update_offsets hands to findall: a str, which is
\* equal to the name of no atom (those are bytes)
S_tfhd == <<-116, -102, -104, -100>>

\* MP4Tags.__update_offsets(fileobj, atoms, delta, offset)
\* The try block of __update_offsets, once the tables are done (r)
OffsetsTfhd(r, atoms, delta, offset) ==
  IF r.err # "none" \/ AtomsPath(atoms, <<N_moof>>) = <<>> THEN r
  ELSE UpdateTfhds(r.file, Findall(AtomsGetItem(atoms, <<N_moof>>), S_tfhd),
                   delta, offset)

\* The co64 tables of __update_offsets, once the stco tables are done (r)
OffsetsCo64(r, moov, delta, offset) ==
  IF r.err # "none" THEN r
  ELSE UpdateTables(r.file, 8, Findall(moov, N_co64), delta, offset)

\* The stco tables, then the co64 tables of moov
OffsetsMoov(f, moov, delta, offset) ==
  OffsetsCo64(UpdateTables(f, 4, Findall(moov, N_stco), delta, offset),
              moov, delta, offset)

update_offsets(f, atoms, delta, offset) ==
  IF delta = 0 THEN Step(f)
  ELSE OffsetsTfhd(OffsetsMoov(f, AtomsGetItem(atoms, <<N_moov>>),
                               delta, offset),
                   atoms, delta, offset)

\* What a save did: the error if any, the file, the splice (delta bytes at
\* offset), the atoms whose size was fixed (path), which way it took
Saved(r, delta, offset, path, way) ==
  [err |-> r.err, file |-> r.file, delta |-> delta, offset |-> offset,
   path |-> path, way |-> way]

\* The rest of a save once the splice is known: write, sizes, offset tables
SpliceOffsets(r, atoms, delta, offset) ==
  IF r.err # "none" THEN r ELSE update_offsets(r.file, atoms, delta, offset)

Splice(f, data, delta, offset, path, atoms, way) ==
  Saved(SpliceOffsets(
          update_parents(
            Write(IF delta > 0 THEN insert_bytes(f, delta, offset) ELSE f,
                  offset, data),
            path, delta),
          atoms, delta, offset),
        delta, offset, path, way)

\* MP4Tags.__save_new(fileobj, atoms, ilst)
save_new(f, atoms, ilst) ==
  LET hdlr == AtomRender(N_hdlr, Zeros(8) \o N_mdirappl \o Zeros(9))
      meta == AtomRender(N_meta, Zeros(4) \o hdlr \o ilst \o pad_ilst(ilst))
      udta == AtomsPath(atoms, <<N_moov, N_udta>>)
      path == IF udta # <<>> THEN udta ELSE AtomsPath(atoms, <<N_moov>>)
      box == IF udta # <<>> THEN meta ELSE AtomRender(N_udta, meta)
  IN
  IF path = <<>>
  THEN Saved(StepFail("KeyError", f), 0, 0, <<>>, "new")
  ELSE Splice(f, box, Len(box), path[Len(path)].offset + 8, path, atoms, "new")

\* meta.children[i] of Python for the 0-based index i >= -1: -1 is the last
\* child; 0 stands for IndexError, otherwise the place in the list
PyIndex(children, i) ==
  IF i = -1 THEN Len(children)
  ELSE IF i < Len(children) THEN i + 1 ELSE 0

\* The region __save_existing replaces: ilst and the free atoms the code
\* takes for its neighbours
Region(meta, ilst) ==
  LET index == FirstNamed(meta.children, N_ilst) - 1
      p == PyIndex(meta.children, index - 1)
      n == PyIndex(meta.children, index + 1)
      prevfree == meta.children[p].name = N_free
      nextfree == n # 0 /\ meta.children[n].name = N_free
  IN [offset |-> IF prevfree THEN meta.children[p].offset ELSE ilst.offset,
      length |-> ilst.length
                   + (IF prevfree THEN meta.children[p].length ELSE 0)
                   + (IF nextfree THEN meta.children[n].length ELSE 0)]

\* MP4Tags.__save_existing(fileobj, atoms, path, data)
\* What __save_existing writes for the region of the given length: the
\* data with its padding, the change of size and which branch it was
Fit(data, length) ==
  LET delta == Len(data) - length IN
  IF delta > 0 \/ (delta < 0 /\ delta > -8)
  THEN [data |-> data \o pad_ilst(data),
        delta |-> Len(data \o pad_ilst(data)) - length,
        way |-> "grow"]
  ELSE IF delta < 0
  THEN [data |-> data \o pad_ilst_length(data, -delta - 8), delta |-> 0,
        way |-> "inplace"]
  ELSE [data |-> data, delta |-> 0, way |-> "exact"]

SaveRegion(f, atoms, path, reg, fit) ==
  Splice(f, fit.data, fit.delta, reg.offset, path, atoms, fit.way)

SaveOver(f, atoms, path, reg, data) ==
  SaveRegion(f, atoms, path, reg, Fit(data, reg.length))

save_existing(f, atoms, fullpath, data) ==
  SaveOver(f, atoms, SubSeq(fullpath, 1, Len(fullpath) - 1),
           Region(fullpath[Len(fullpath) - 1], fullpath[Len(fullpath)]), data)

\* MP4Tags.save(filename) on the file f with the tag map t
\* try: path = atoms.path(b"moov", b"udta", b"meta", b"ilst") ...
SaveAt(f, atoms, path, data) ==
  IF path = <<>> THEN save_new(f, atoms, data)
  ELSE save_existing(f, atoms, path, data)

\* The part of save after the rendering: open the file, parse the atoms
SaveData(f, a, data) ==
  IF a.err # "none" THEN Saved(StepFail(a.err, f), 0, 0, <<>>, "parse")
  ELSE SaveAt(f, a.atoms, AtomsPath(a.atoms, IlstPath), data)

\* save that opens and writes the file before it raises the error of the
\* rendering
SaveRendered_late(f, r) ==
  IF r.err # "none"
  THEN Saved(StepFail(r.err,
                      SaveData(f, Atoms(f), AtomRender(N_ilst, <<>>)).file),
             0, 0, <<>>, "render")
  ELSE SaveData(f, Atoms(f), r.data)

SaveRendered(f, r) ==
  IF r.err # "none" THEN Saved(StepFail(r.err, f), 0, 0, <<>>, "render")
  ELSE SaveData(f, Atoms(f), r.data)

save(f, t) == SaveRendered(f, RenderIlst(t))

-----------------------------------------------------------------------------
(* MP4Info and MP4.load                                                    *)

RECURSIVE GetItem(_, _)
\* Atom.__getitem__(names) on an atom: the list of the one atom found, <<>>
\* for KeyError
GetItem(atom, names) ==
  IF names = <<>> THEN <<atom>>
  ELSE IF ~atom.container THEN <<>>
  ELSE
    LET i == FirstNamed(atom.children, Head(names)) IN
    IF i = 0 THEN <<>> ELSE GetItem(atom.children[i], Tail(names))

\* The whole atom as MP4Info reads it: fileobj.read(atom.length) at its
\* offset
AtomBytes(f, atom) == Read(f, atom.offset, atom.length)

NoInfo ==
  [some |-> FALSE, length |-> <<0, 1>>, channels |-> 0,
   bits_per_sample |-> 0, sample_rate |-> 0, bitrate |-> 0]

InfoFail(e) == [err |-> e, info |-> NoInfo]

RECURSIVE FirstAudio(_, _)
\* for trak in moov.findall(b"trak"): ... if data[16:20] == b"soun": break
\* [err, trak]: "KeyError" when a trak has no mdia.hdlr, "MP4StreamInfoError"
\* when the loop ends without a break
FirstAudio(f, traks) ==
  IF traks = <<>> THEN [err |-> "MP4StreamInfoError", trak |-> <<>>]
  ELSE
    LET hdlr == GetItem(Head(traks), <<N_mdia, N_hdlr>>) IN
    IF hdlr = <<>> THEN [err |-> "KeyError", trak |-> <<>>]
    ELSE IF Slice(AtomBytes(f, hdlr[1]), 16, 20) = N_soun
      THEN [err |-> "none", trak |-> <<Head(traks)>>]
    ELSE FirstAudio(f, Tail(traks))

\* The bitrate part of MP4Info.__init__, from data[64] on; [err, bitrate]
EsdsBitrate(data) ==
  IF Len(data) <= 64 THEN [err |-> "IndexError", bitrate |-> 0]
  ELSE IF data[65] # 3 THEN [err |-> "none", bitrate |-> 0]
  ELSE
    LET pos1 == (IF Slice(data, 65, 68) = <<128, 128, 128>> THEN 68 ELSE 65)
                  + 4
    IN
    IF Len(data) <= pos1 THEN [err |-> "IndexError", bitrate |-> 0]
    ELSE IF data[pos1 + 1] # 4 THEN [err |-> "none", bitrate |-> 0]
    ELSE
      LET pos2 == pos1 + 1
          pos3 == (IF Slice(data, pos2, pos2 + 3) = <<128, 128, 128>>
                   THEN pos2 + 3 ELSE pos2) + 10
      IN
      IF Len(Slice(data, pos3, pos3 + 4)) < 4
      THEN [err |-> "struct.error", bitrate |-> 0]
      ELSE [err |-> "none", bitrate |-> uint_be(Slice(data, pos3, pos3 + 4))]

\* The stsd part of MP4Info.__init__: updates the info i; a KeyError (no
\* stsd) is passed over, any other error leaves __init__
InfoStsd(f, trak, i) ==
  LET stsd == GetItem(trak, <<N_mdia, N_minf, N_stbl, N_stsd>>) IN
  IF stsd = <<>> THEN [err |-> "none", info |-> i]
  ELSE
    LET data == AtomBytes(f, stsd[1]) IN
    IF Slice(data, 20, 24) # N_mp4a THEN [err |-> "none", info |-> i]
    ELSE IF Len(Slice(data, 40, 50)) < 10 THEN InfoFail("struct.error")
    ELSE
      LET i2 == [i EXCEPT !.channels = ushort_be(Slice(data, 40, 42)),
                          !.bits_per_sample = ushort_be(Slice(data, 42, 44)),
                          !.sample_rate = uint_be(Slice(data, 46, 50))]
      IN
      IF Slice(data, 56, 60) # N_esds THEN [err |-> "none", info |-> i2]
      ELSE
        LET b == EsdsBitrate(data) IN
        IF b.err # "none" THEN InfoFail(b.err)
        ELSE [err |-> "none", info |-> [i2 EXCEPT !.bitrate = b.bitrate]]

\* MP4Info(atoms, fileobj): [err, info]; length is kept as the pair
\* <<length, unit>> of the division length / unit
MP4Info(atoms, f) ==
  IF AtomsPath(atoms, <<N_moov>>) = <<>> THEN InfoFail("KeyError")
  ELSE
    LET moov == AtomsGetItem(atoms, <<N_moov>>)
        traks == SelectSeq(moov.children, LAMBDA c : c.name = N_trak)
        a == FirstAudio(f, traks)
    IN
    IF a.err # "none" THEN InfoFail(a.err)
    ELSE
      LET trak == a.trak[1]
          mdhd == GetItem(trak, <<N_mdia, N_mdhd>>)
      IN
      IF mdhd = <<>> THEN InfoFail("KeyError")
      ELSE
        LET data == AtomBytes(f, mdhd[1]) IN
        IF Len(data) <= 8 THEN InfoFail("IndexError")
        ELSE
          LET v0 == data[9] = 0
              off == IF v0 THEN 20 ELSE 28
              end == IF v0 THEN 28 ELSE 40
              d == Slice(data, off, end)
          IN
          IF Len(d) < end - off THEN InfoFail("struct.error")
          ELSE
            LET unit == uint_be(SubSeq(d, 1, 4))
                length == IF v0 THEN uint_be(SubSeq(d, 5, 8))
                          ELSE ulonglong_be(SubSeq(d, 5, 12))
            IN
            IF unit = 0 THEN InfoFail("ZeroDivisionError")
            ELSE InfoStsd(f, trak,
                   [NoInfo EXCEPT !.some = TRUE, !.length = <<length, unit>>])

NoTags == [some |-> FALSE, d |-> <<>>]
SomeTags(d) == [some |-> TRUE, d |-> d]

\* MP4.load(filename): what it leaves in self.info and self.tags (a field
\* it does not reach keeps the value old has) and the error it raises.
\* infoerr and tagerr are the errors of the two parts, "skipped" for a part
\* that was not reached.
\* load without its except MP4MetadataError: the error of the tags ends
\* the load
LoadTags_raising(old, i, t) ==
  IF t.err = "none"
  THEN [err |-> "none", info |-> i, tags |-> SomeTags(t.tags),
        infoerr |-> "none", tagerr |-> "none"]
  ELSE [err |-> "MP4MetadataError", info |-> i, tags |-> old.tags,
        infoerr |-> "none", tagerr |-> t.err]

\* try: self.tags = self.MP4Tags(atoms, fileobj) / except MP4MetadataError
\* / except Exception, with t what MP4Tags gave
LoadTags(old, i, t) ==
  IF t.err = "none"
  THEN [err |-> "none", info |-> i, tags |-> SomeTags(t.tags),
        infoerr |-> "none", tagerr |-> "none"]
  ELSE IF t.err = "MP4MetadataError"
  THEN [err |-> "none", info |-> i, tags |-> NoTags,
        infoerr |-> "none", tagerr |-> t.err]
  ELSE [err |-> "MP4MetadataError", info |-> i, tags |-> old.tags,
        infoerr |-> "none", tagerr |-> t.err]

\* try: self.info = MP4Info(atoms, fileobj) / except Exception, with i what
\* MP4Info gave
LoadInfo(f, old, atoms, i) ==
  IF i.err # "none"
  THEN [err |-> "MP4StreamInfoError", info |-> old.info, tags |-> old.tags,
        infoerr |-> i.err, tagerr |-> "skipped"]
  ELSE LoadTags(old, i.info, TagsLoad(atoms, f))

\* atoms = Atoms(fileobj), with a what Atoms gave
LoadAtoms(f, old, a) ==
  IF a.err # "none"
  THEN [err |-> a.err, info |-> old.info, tags |-> old.tags,
        infoerr |-> "skipped", tagerr |-> "skipped"]
  ELSE LoadInfo(f, old, a.atoms, MP4Info(a.atoms, f))

MP4Load(f, old) == LoadAtoms(f, old, Atoms(f))

-----------------------------------------------------------------------------
(* The files the model starts from.  A file is ftyp, mdat, moov and, for   *)
(* some, a second mdat; moov holds one audio trak with an stco and a co64  *)
(* table and, for some, udta with meta.  The tables hold the offset of a   *)
(* sample in the first mdat and of one in the second.                      *)

MaxSaves == 1
MaxFileLen == 700
FreeLen == 64
LongLen == 90
FullLen == 992

BoxExt(name, payload) ==
  <<0, 0, 0, 1>> \o name \o to_ulonglong_be(Len(payload) + 16) \o payload

BoxEof(name, payload) == <<0, 0, 0, 0>> \o name \o payload

Box(enc, name, payload) ==
  IF enc = "ext" THEN BoxExt(name, payload)
  ELSE IF enc = "eof" THEN BoxEof(name, payload)
  ELSE AtomRender(name, payload)

\* One data sub-atom
DataAtom(flags, payload) ==
  AtomRender(N_data, to_uint_be(flags) \o to_uint_be(0) \o payload)

Txt_Hi == <<72, 105>>
Txt_e == <<233>>
Txt_x == <<120>>
Txt_Ab == <<65, 98>>
Bytes_abc == <<97, 98, 99>>
Key_ab == K_free4 \o <<58, 97, 58, 98>>
Key_ac == K_free4 \o <<58, 97, 58, 99>>

GnreAtom(n) == AtomRender(K_gnre, DataAtom(0, to_ushort_be(n)))

FreeformAtom(version) ==
  AtomRender(K_free4,
    to_uint_be(13) \o N_mean \o to_uint_be(0) \o <<97>>
      \o to_uint_be(13) \o N_name \o to_uint_be(0) \o <<98>>
      \o to_uint_be(19) \o N_data \o <<version, 0, 0, 1>> \o to_uint_be(0)
      \o Bytes_abc)

\* The ilst payloads of the starting files, each a list of tag atoms
IlstContents ==
  [plain |-> <<AtomRender(K_nam, DataAtom(1, Txt_Hi))>>,
   plain4 |-> <<AtomRender(K_nam, DataAtom(1, Txt_Hi \o Txt_Hi))>>,
   empty |-> <<>>,
   gnre |-> <<GnreAtom(18)>>,
   gnre_gen |-> <<GnreAtom(18), AtomRender(K_gen, DataAtom(1, Txt_Ab))>>,
   gen_gnre |-> <<AtomRender(K_gen, DataAtom(1, Txt_Ab)), GnreAtom(18)>>,
   gnre_zero |-> <<GnreAtom(0)>>,
   gnre_big |-> <<GnreAtom(200)>>,
   gnre_neg |-> <<GnreAtom(65535)>>,
   gnre_nontext |-> <<GnreAtom(3), AtomRender(K_gen, DataAtom(0, Txt_Ab))>>,
   freeform |-> <<FreeformAtom(0)>>,
   freeform_v1 |-> <<AtomRender(K_nam, DataAtom(1, Txt_Hi)), FreeformAtom(1)>>,
   unknown |-> <<AtomRender(K_xxxx, DataAtom(1, Txt_Hi)),
                 AtomRender(K_aART, DataAtom(0, Txt_x))>>,
   typed |-> <<AtomRender(K_trkn, DataAtom(0, <<0, 0, 0, 3, 0, 10, 0, 0>>)),
               AtomRender(K_disk, DataAtom(0, <<0, 0, 0, 1, 0, 2>>)),
               AtomRender(K_tmpo, DataAtom(21, <<0, 120>>)),
               AtomRender(K_cpil, DataAtom(21, <<1>>)),
               AtomRender(K_covr,
                 AtomRender(N_name, Txt_x) \o DataAtom(14, Bytes_abc)
                   \o DataAtom(99, Txt_x))>>,
   badsub |-> <<AtomRender(K_nam, AtomRender(N_name, Zeros(8)))>>,
   short |-> <<AtomRender(K_trkn, DataAtom(0, <<0, 0, 3>>))>>,
   invalid |-> <<AtomRender(K_nam, DataAtom(1, <<72, 255, 195>>)),
                 AtomRender(K_purl, DataAtom(0, Txt_Hi) \o DataAtom(1, Txt_x))>>]

MetaHdlr == AtomRender(N_hdlr, Zeros(8) \o N_mdirappl \o Zeros(9))

\* One child of meta
Kid(kind, ilst) ==
  IF kind = "hdlr" THEN MetaHdlr
  ELSE IF kind = "free" THEN AtomRender(N_free, Zeros(FreeLen))
  ELSE IF kind = "free0" THEN AtomRender(N_free, <<>>)
  ELSE AtomRender(N_ilst, Concat(ilst))

MetaBox(enc, kids, ilst) ==
  Box(enc, N_meta,
      Zeros(4) \o Concat([i \in 1..Len(kids) |-> Kid(kids[i], ilst)]))

\* An mp4a sample description with an esds that gives a bitrate
StsdBox ==
  AtomRender(N_stsd,
    Zeros(8) \o to_uint_be(70) \o N_mp4a \o Zeros(16)
      \o to_ushort_be(2) \o to_ushort_be(16) \o to_ushort_be(0)
      \o to_uint_be(44100) \o Zeros(2)
      \o to_uint_be(30) \o N_esds \o Zeros(4)
      \o <<3, 128, 128, 128, 0, 0, 0, 0, 4, 0, 0, 0, 0, 0, 0, 0, 0, 0, 0>>
      \o to_uint_be(128000))

\* The audio trak; a and b are the entries of its offset tables
TrakBox(handler, stsd, a, b) ==
  AtomRender(N_trak,
    AtomRender(N_mdia,
      AtomRender(N_hdlr, Zeros(8) \o handler)
        \o AtomRender(N_mdhd,
             Zeros(12) \o to_uint_be(1000) \o to_uint_be(5000) \o Zeros(4))
        \o AtomRender(N_minf,
             AtomRender(N_stbl,
               (IF stsd THEN StsdBox ELSE <<>>)
                 \o AtomRender(N_stco,
                      Zeros(4) \o to_uint_be(2) \o to_uint_be(a)
                        \o to_uint_be(b))
                 \o AtomRender(N_co64,
                      Zeros(4) \o to_uint_be(2) \o to_ulonglong_be(b)
                        \o to_ulonglong_be(a))))))

\* A shape: how moov, udta and meta are encoded ("u32", "ext", "eof", or
\* "none" for an atom that is not there), whether the trak comes before
\* udta, the children of meta, the ilst payload, the trak's handler,
\* whether it has an stsd, whether a second mdat follows moov
Shape(moov, udta, meta, trakFirst, kids, ilst, handler, stsd, tail) ==
  [moov |-> moov, udta |-> udta, meta |-> meta, trakFirst |-> trakFirst,
   kids |-> kids, ilst |-> ilst, handler |-> handler, stsd |-> stsd,
   tail |-> tail]

MoovBox(sh, a, b) ==
  LET trak == TrakBox(sh.handler, sh.stsd, a, b)
      meta == IF sh.meta = "none" THEN <<>>
              ELSE MetaBox(sh.meta, sh.kids, IlstContents[sh.ilst])
      udta == IF sh.udta = "none" THEN <<>> ELSE Box(sh.udta, N_udta, meta)
  IN Box(sh.moov, N_moov,
         IF sh.trakFirst THEN trak \o udta ELSE udta \o trak)

FtypBox == AtomRender(N_ftyp, <<77, 52, 65, 32, 0, 0, 0, 0>>)
MdatBox == AtomRender(N_mdat, <<1, 2, 3, 4>>)

\* The offset of the first sample of the first mdat
SampleA == Len(FtypBox) + 8

\* A track fragment whose header has the given flags and base data offset
TrafBox(flags, base) ==
  AtomRender(N_traf,
    AtomRender(N_tfhd, <<0, 0, 0, flags>> \o to_uint_be(1)
                         \o to_ulonglong_be(base)))

\* A movie fragment: a header with a base data offset past moov, one with a
\* base data offset before moov, one without a base data offset
MoofBox(a, b) ==
  AtomRender(N_moof, TrafBox(1, b) \o TrafBox(1, a) \o TrafBox(0, b))

\* The file of a shape
FileOf(sh) ==
  LET b == Len(FtypBox) + Len(MdatBox) + Len(MoovBox(sh, 0, 0)) + 8
             + (IF sh.tail = "moof" THEN Len(MoofBox(0, 0)) ELSE 0)
  IN
  FtypBox \o MdatBox \o MoovBox(sh, SampleA, b)
    \o (IF sh.tail = "mdat" THEN AtomRender(N_mdat, <<5, 6, 7, 8>>)
        ELSE IF sh.tail = "eof" THEN BoxEof(N_mdat, <<5, 6, 7, 8>>)
        ELSE IF sh.tail = "moof"
          THEN MoofBox(SampleA, b)
                 \o AtomRender(N_mdat, <<5, 6, 7, 8>>)
        ELSE <<>>)

Kids == {<<"hdlr", "ilst", "free">>, <<"hdlr", "ilst">>, <<"ilst", "free">>,
         <<"free", "ilst">>, <<"hdlr", "free", "ilst", "free">>, <<"ilst">>,
         <<"hdlr", "ilst", "free0">>, <<"ilst", "free0">>, <<"hdlr">>}

\* The files whose structure varies; their tags are plain
Shapes ==
  {Shape(m, "none", "none", TRUE, <<>>, "plain", N_soun, FALSE, "mdat") :
     m \in {"u32", "ext"}}
  \cup {Shape(m, u, "none", tf, <<>>, "plain", N_soun, FALSE, "mdat") :
     m \in {"u32", "ext"}, u \in {"u32", "ext"}, tf \in BOOLEAN}
  \cup {Shape("u32", "u32", "u32", tf, k, "plain", N_soun, FALSE, "mdat") :
     tf \in BOOLEAN, k \in Kids}
  \cup {Shape(m, u, e, FALSE, <<"hdlr", "ilst", "free">>, "plain", N_soun,
              FALSE, "mdat") :
     m \in {"u32", "ext"}, u \in {"u32", "ext"}, e \in {"u32", "ext"}}
  \* the last atom of the file: moov itself, with or without a size, or an
  \* mdat without a size
  \cup {Shape(m, "u32", "u32", TRUE, <<"hdlr", "ilst">>, "plain", N_soun,
              FALSE, "none") : m \in {"u32", "eof"}}
  \cup {Shape("u32", "u32", "u32", TRUE, <<"hdlr", "ilst">>, "plain", N_soun,
              TRUE, "eof")}
  \* a longer title, so that the ilst and the free atom after it are as
  \* long as the trak atom's bytes up to the entries of its stco table
  \cup {Shape("u32", "u32", "u32", FALSE, <<"ilst", "free">>, "plain4",
              N_soun, FALSE, "mdat")}
  \* a fragmented file: a moof with track fragment headers follows moov
  \cup {Shape("u32", "u32", "u32", TRUE, <<"hdlr", "ilst">>, "plain", N_soun,
              FALSE, "moof")}

\* The files whose tags vary, and files without an audio track or without
\* tags
TagShapes ==
  {Shape("u32", "u32", "u32", TRUE, <<"hdlr", "ilst">>, i, N_soun, FALSE,
         "mdat") : i \in DOMAIN IlstContents}
  \cup {Shape("u32", "u32", e, TRUE, <<"hdlr", "ilst">>, "plain", h, TRUE,
              "mdat") : e \in {"u32", "none"}, h \in {N_soun, N_mdirappl}}

StructFiles == {FileOf(sh) : sh \in Shapes}

\* The files for the parser: after ftyp, one atom whose header varies (the
\* 32-bit size field, the name, the 64-bit size that follows a size field
\* of 1), at the top level or as the only child of moov, with a payload of
\* PayLen bytes or none
PayLen == 4
SizeFields == (0..9) \cup {12}
LongSizes == {0, 4, 7, 8, 16, 20}

Header(size, name, long) ==
  to_uint_be(size) \o name
    \o (IF size = 1 THEN to_ulonglong_be(long) ELSE <<>>)

HeaderFile(size, name, long, inner, pay) ==
  FtypBox \o (IF inner
              THEN AtomRender(N_moov, Header(size, name, long) \o Zeros(pay))
              ELSE Header(size, name, long) \o Zeros(pay))

HeaderFiles ==
  {HeaderFile(size, name, IF size = 1 THEN long ELSE 0, inner, pay) :
     size \in SizeFields, name \in {N_free, N_udta}, long \in LongSizes,
     inner \in BOOLEAN, pay \in {0, PayLen}}
TagFiles == {FileOf(sh) : sh \in TagShapes}

-----------------------------------------------------------------------------
(* The tag maps a caller may ask save to write                             *)

Item(key, val) == [key |-> key, val |-> val]

\* Tag maps of several sizes, for the splice
SizeMaps ==
  {<<Item(K_nam, Val("text", <<Txt_Hi>>))>>,
   <<Item(K_nam, Val("text", <<Txt_x>>))>>,
   <<Item(K_nam, Val("text", <<Rep(120, LongLen)>>))>>,
   \* an ilst of a multiple of 1024 bytes, which gets no padding; the text
   \* ends with the bytes of the number 2
   <<Item(K_nam, Val("text", <<Rep(120, FullLen - 4) \o <<0, 0, 0, 2>>>>))>>}

\* Tag maps of every kind of value, for the codec
TagMaps ==
  {<<Item(K_nam, Val("text", <<Txt_Hi>>))>>,
   <<Item(K_nam, Val("text", <<Txt_Hi, Txt_e>>))>>,
   <<Item(K_nam, Val("str", <<Txt_Hi>>))>>,
   <<Item(K_nam, Val("text", <<>>))>>,
   <<Item(K_nam, Val("text", <<Rep(120, LongLen)>>))>>,
   <<Item(K_disk, Val("pairs", <<<<1, 2>>>>)),
     Item(K_trkn, Val("pairs", <<<<3, 10>>, <<65535, 0>>>>))>>,
   <<Item(K_nam, Val("text", <<Txt_Hi>>)),
     Item(K_trkn, Val("pairs", <<<<70000, 1>>>>))>>,
   <<Item(K_disk, Val("pairs", <<<<1, -1>>>>))>>,
   <<Item(K_tmpo, Val("ints", <<<<120>>>>))>>,
   <<Item(K_tmpo, Val("ints", <<<<120>>, <<65536>>>>))>>,
   <<Item(K_tmpo, Val("int", <<<<120>>>>))>>,
   <<Item(K_tmpo, Val("ints", <<>>))>>,
   <<Item(K_pgap, Val("bool", <<<<0>>>>)),
     Item(K_cpil, Val("bool", <<<<1>>>>))>>,
   <<Item(K_covr, Val("covers", <<<<FORMAT_PNG>> \o Bytes_abc,
                                  <<FORMAT_JPEG>> \o Txt_x>>))>>,
   <<Item(Key_ab, Val("freeform", <<<<FORMAT_TEXT>> \o Bytes_abc,
                                    <<FORMAT_DATA>> \o Txt_x>>))>>,
   <<Item(Key_ab, Val("freeform", <<<<FORMAT_TEXT>> \o Txt_x>>)),
     Item(Key_ac, Val("freeform", <<<<FORMAT_TEXT>> \o Txt_x>>))>>,
   <<Item(Key_ac, Val("freeform", <<<<FORMAT_TEXT>> \o Txt_x>>)),
     Item(Key_ab, Val("freeform", <<<<FORMAT_TEXT>> \o Txt_x>>))>>,
   <<Item(K_free4, Val("freeform", <<<<FORMAT_TEXT>> \o Txt_x>>))>>,
   <<Item(K_xxxx, Val("text", <<Txt_Hi>>))>>,
   <<Item(K_gnre, Val("text", <<Txt_Ab>>))>>,
   <<Item(K_aART, Val("text", <<Txt_x>>)),
     Item(K_cmt, Val("text", <<Txt_x>>))>>,
   <<Item(K_cmt, Val("text", <<Txt_x>>)),
     Item(K_aART, Val("text", <<Txt_x>>))>>,
   <<Item(K_lyr, Val("text", <<Txt_Ab>>)),
     Item(K_purl, Val("text", <<Txt_x>>)),
     Item(K_gen, Val("text", <<Txt_Ab, Txt_x>>)),
     Item(K_gen \o <<49>>, Val("text", <<Txt_Ab>>)),
     Item(K_nam, Val("text", <<Txt_e>>))>>}

-----------------------------------------------------------------------------
(* The state machine: one MP4 object on one file                           *)

NoLoad ==
  [err |-> "never", infoerr |-> "never", tagerr |-> "never", at |-> 0,
   tags |-> NoTags, parse |-> "never", atoms |-> <<>>]

NoSave ==
  [err |-> "never", pre |-> <<>>, t |-> <<>>, delta |-> 0, offset |-> 0,
   path |-> <<>>, way |-> "never"]

InitOn(files) ==
  /\ file \in files
  /\ tags = NoTags
  /\ info = NoInfo
  /\ loaded = NoLoad
  /\ hist = NoSave
  /\ saves = 0

\* MP4(filename) and MP4.load(filename)
\* The object after a load that gave r, with a what Atoms(fileobj) gave it
Loaded(r, a) ==
  /\ info' = r.info
  /\ tags' = r.tags
  /\ loaded' = [err |-> r.err, infoerr |-> r.infoerr, tagerr |-> r.tagerr,
                at |-> saves, tags |-> r.tags, parse |-> a.err,
                atoms |-> IF a.err = "none" THEN a.atoms ELSE <<>>]

Load ==
  /\ Loaded(MP4Load(file, [info |-> info, tags |-> tags]), Atoms(file))
  /\ UNCHANGED <<file, hist, saves>>

\* The object exists once a load has succeeded
Open == loaded.err = "none"

\* The model goes on to another save
MaySave == saves < MaxSaves /\ Len(file) <= MaxFileLen

\* MP4.add_tags()
AddTags ==
  /\ Open
  /\ MaySave
  /\ tags' = SomeTags(<<>>)
  /\ UNCHANGED <<file, info, loaded, hist, saves>>

\* The caller fills the tag map: clear() and then tags[key] = value in the
\* order of t, for a t of maps
SetTags(maps) ==
  /\ Open
  /\ tags.some
  /\ MaySave
  /\ \E t \in maps : tags' = SomeTags(t)
  /\ UNCHANGED <<file, info, loaded, hist, saves>>

\* An atom without its children
Flat(atom) ==
  [offset |-> atom.offset, length |-> atom.length, name |-> atom.name]

\* The file and the record of the save that gave r: its error, the file
\* before it, the tag map, the splice, the atoms whose size was fixed
Written(t, r) ==
  /\ file' = r.file
  /\ hist' = [err |-> r.err, pre |-> file, t |-> t, delta |-> r.delta,
              offset |-> r.offset,
              path |-> [i \in 1..Len(r.path) |-> Flat(r.path[i])],
              way |-> r.way]
  /\ saves' = saves + 1

DoSave(t) == Written(t, save(file, t))

\* MP4Tags.save(filename)
Save ==
  /\ Open
  /\ tags.some
  /\ MaySave
  /\ DoSave(tags.d)
  /\ UNCHANGED <<tags, info, loaded>>

\* MP4Tags.delete(filename): self.clear(); self.save(filename)
Delete ==
  /\ Open
  /\ tags.some
  /\ MaySave
  /\ tags' = SomeTags(<<>>)
  /\ DoSave(<<>>)
  /\ UNCHANGED <<info, loaded>>

\* Files of every structure, tag maps of several sizes
Init == InitOn(StructFiles)
SetSizeTags == SetTags(SizeMaps)
Next == Load \/ AddTags \/ SetSizeTags \/ Save \/ Delete
Spec == Init /\ [][Next]_vars

\* Files with tags of every kind, tag maps of every kind
InitCodec == InitOn(TagFiles)
SetAnyTags == SetTags(TagMaps)
NextCodec == Load \/ AddTags \/ SetAnyTags \/ Save \/ Delete
CodecSpec == InitCodec /\ [][NextCodec]_vars

\* The parser alone, on the files whose headers vary
InitParse == InitOn(HeaderFiles)
NextParse == Load
ParseSpec == InitParse /\ [][NextParse]_vars

-----------------------------------------------------------------------------
(* The claims                                                              *)

RECURSIVE Boxes(_)
\* Every atom of a parse tree: each atom, then its children, then the atoms
\* after it
Boxes(atoms) ==
  IF atoms = <<>> THEN <<>>
  ELSE <<Head(atoms)>> \o Boxes(Head(atoms).children) \o Boxes(Tail(atoms))

\* The atoms of a list that are shorter than a header
ShortBoxes(boxes) == {i \in 1..Len(boxes) : boxes[i].length < 8}

\* The last save ran to its end and spliced a nonzero delta
Spliced == hist.err = "none" /\ hist.delta # 0

\* The value of an entry of an offset table
EntryValue(e) == IF Len(e) = 4 THEN uint_be(e) ELSE ulonglong_be(e)

\* The entry i (from 0) of the table of entries of width w whose box is at
\* offset a of the file f
Entry(f, a, w, i) == EntryValue(Read(f, a + 16 + i * w, w))

\* The number of entries of that table
EntryCount(f, a) == uint_be(Read(f, a + 12, 4))

\* The entry i of the table at a before the splice of d bytes at o, and
\* after it in the file post, where the box is at a + d if it was after o
EntryShifted(s, s2, d, o) == s2 = IF s > o THEN s + d ELSE s

TableShifted(pre, post, a, w, d, o) ==
  \A i \in 0..(EntryCount(pre, a) - 1) :
    EntryShifted(Entry(pre, a, w, i),
                 Entry(post, IF a > o THEN a + d ELSE a, w, i), d, o)

TablesShifted(pre, post, found, w, d, o) ==
  \A k \in 1..Len(found) : TableShifted(pre, post, found[k].offset, w, d, o)

MoovTablesShifted(pre, post, moov, d, o) ==
  /\ TablesShifted(pre, post, Findall(moov, N_stco), 4, d, o)
  /\ TablesShifted(pre, post, Findall(moov, N_co64), 8, d, o)

\* C1: after a save that splices d # 0 bytes at offset o, every entry s of
\* every stco and co64 table under moov is s + d if s > o before the save
\* and unchanged if s <= o, wherever the table's box is relative to o
C1_OffsetsFollowSplice ==
  Spliced =>
    MoovTablesShifted(hist.pre, file,
                      AtomsGetItem(Atoms(hist.pre).atoms, <<N_moov>>),
                      hist.delta, hist.offset)

\* A table after o with an entry above o and an entry not above o
TableBothWays(pre, a, w, o) ==
  /\ a > o
  /\ \E i \in 0..(EntryCount(pre, a) - 1) : Entry(pre, a, w, i) > o
  /\ \E i \in 0..(EntryCount(pre, a) - 1) : Entry(pre, a, w, i) <= o

SomeTableBothWays(pre, found, w, o) ==
  \E k \in 1..Len(found) : TableBothWays(pre, found[k].offset, w, o)

\* C1, its case: a save has spliced, a co64 table lies after the splice,
\* one of its entries points past the splice and one before it
C1_Witness ==
  /\ Spliced
  /\ SomeTableBothWays(hist.pre,
        Findall(AtomsGetItem(Atoms(hist.pre).atoms, <<N_moov>>), N_co64),
        8, hist.offset)

\* The bytes of the header of the atom at offset a of the file f: 16 when
\* its size field is 1, otherwise 8
HeaderLen(f, a) == IF uint_be(Read(f, a, 4)) = 1 THEN 16 ELSE 8

RECURSIVE SumLengths(_)
\* The sum of the lengths of a list of atoms
SumLengths(children) ==
  IF children = <<>> THEN 0
  ELSE Head(children).length + SumLengths(Tail(children))

\* The atom of the file f is as long as its header, its prefix and its
\* children together
SizedAsChildren(f, atom) ==
  atom.length = HeaderLen(f, atom.offset) + _SKIP_SIZE(atom.name)
                  + SumLengths(atom.children)

\* The path moov, udta, meta, ilst exists and each of its atoms is sized as
\* its children
PathSized(f, path) ==
  /\ path # <<>>
  /\ \A i \in 1..Len(path) : SizedAsChildren(f, path[i])

\* The parse a of the file f gave no error and a path that is sized
ParsesSized(f, a) ==
  /\ a.err = "none"
  /\ PathSized(f, AtomsPath(a.atoms, IlstPath))

\* The last save ran to its end
SaveDone == hist.err = "none"

\* C2: after any save (new ilst or existing ilst, growing or in place) on a
\* file that parsed without error, the file parses without error and every
\* container on the path moov, udta, meta, ilst has the size of its header,
\* its prefix (4 for meta) and its children together
C2_SavedFileWellFormed == SaveDone => ParsesSized(file, Atoms(file))

\* A load has followed the last save
Reloaded == saves > 0 /\ loaded.at = saves

\* The last save ran to its end over an ilst that the file had
SavedOverTags == SaveDone /\ hist.way \in {"grow", "inplace", "exact"}

\* A tag of a supported shape: a list of text, of pairs, of integers, of
\* covers or of freeform values, or a bool, under a FourCC or freeform key
SupportedItem(item) ==
  /\ item.val.k \in {"text", "pairs", "ints", "bool", "covers", "freeform"}
  /\ (Len(item.key) = 4 \/ Key4(item.key) = K_free4)

Supported(t) == \A i \in 1..Len(t) : SupportedItem(t[i])

\* Two tag maps are equal up to the order of their keys
SameMap(a, b) == {a[i] : i \in 1..Len(a)} = {b[i] : i \in 1..Len(b)}

\* C3: round trip: for a file with tags and a tag map T of supported
\* shapes, saving T into the file and loading the result yields a tag map
\* equal to T up to the order of the keys
C3_RoundTrip ==
  (SavedOverTags /\ Reloaded /\ Supported(hist.t)) =>
    (loaded.err = "none" /\ tags.some /\ SameMap(tags.d, hist.t))

\* The last save stopped in the rendering of the tag map
RenderFailed == hist.way = "render"

\* A save has been asked for
SaveAsked == hist.way # "never"

\* When the rendering r of the tag map of the last save failed, the save
\* raised that error and the file is what it was
FailedRenderKeeps(r) ==
  r.err # "none" =>
    /\ hist.err = "MP4MetadataValueError"
    /\ file = hist.pre
    /\ Len(file) = Len(hist.pre)

\* C4: if rendering a tag of the tag map fails during save (a pair
\* component outside 0..65535, a tempo that is not a list of 16-bit
\* integers, a key that has no renderer), save raises a value error before
\* any byte of the file is written: content and length of the file are
\* those before the save
C4_RenderErrorBeforeWrite == SaveAsked => FailedRenderKeeps(RenderIlst(hist.t))

\* C4, its case: the title has rendered and the track number 70000 after it
\* has not; the save has raised and the file is the one before
C4_Witness ==
  /\ RenderFailed
  /\ hist.err = "MP4MetadataValueError"
  /\ DictHas(hist.t, K_nam)
  /\ DictHas(hist.t, K_trkn)
  /\ RenderTag(K_nam, DictGet(hist.t, K_nam)).err = "none"
  /\ RenderTag(K_trkn, DictGet(hist.t, K_trkn)).err # "none"
  /\ Len(hist.pre) > 0
  /\ file = hist.pre

\* t with its items i and j exchanged
Swap(t, i, j) ==
  [k \in 1..Len(t) |-> IF k = i THEN t[j] ELSE IF k = j THEN t[i] ELSE t[k]]

\* Whatever two items of the tag map t are exchanged, the rendered ilst is
\* the given one
OrderFree(t, ilst) ==
  \A i, j \in 1..Len(t) : RenderIlst(Swap(t, i, j)) = ilst

\* C5: the ilst payload that save produces is the concatenation of the
\* rendered tags sorted by (place of the key's first four bytes in the
\* preference list, length of the value, value), so the bytes are a
\* function of the tag map and do not depend on the order in which the tags
\* were inserted
C5_OrderIndependent == SaveDone => OrderFree(hist.t, RenderIlst(hist.t))

\* The FourCC of the key is none of the tags that MP4Tags knows: it has no
\* codec of its own and is none of the text keys that MP4Tags lists (of
\* which the model uses these)
Unknown(key) ==
  Key4(key) \notin {K_free4, K_trkn, K_disk, K_gnre, K_tmpo, K_cpil, K_pgap,
                    K_pcst, K_covr, K_purl, K_egid, K_nam, K_ART, K_wrt,
                    K_alb, K_gen, K_day, K_too, K_lyr, K_aART, K_cmt}

\* The items of a tag map under such a key, with text for a value
UnknownTexts(t) ==
  {i \in 1..Len(t) : Unknown(t[i].key) /\ t[i].val.k \in {"text", "str"}}

\* The ilst atoms in what a save wrote, a being the atom read at the place
\* of the splice
WrittenIlst(a) ==
  IF a.err # "none" THEN <<>> ELSE FindallList(<<a.atom>>, N_ilst)

\* The children of the first of the atoms found that have the name the
\* key is written under
Named(found, key) ==
  {c \in 1..Len(found[1].children) :
     found[1].children[c].name = Pack4s(key)}

\* Some such child holds the bytes of the item rendered as text
HoldsText(f, found, item) ==
  \E c \in Named(found, item.key) :
    Read(f, found[1].children[c].offset, found[1].children[c].length)
      = RenderText(item.key, item.val, 1).data

\* The written ilst holds every text item of t whose key is unknown
UnknownKept(f, t, found) ==
  \A i \in UnknownTexts(t) : found # <<>> /\ HoldsText(f, found, t[i])

\* The written ilst holds no atom for an item of t whose key is unknown
UnknownAbsent(t, found) ==
  \A i \in UnknownTexts(t) : found # <<>> /\ Named(found, t[i].key) = {}

\* What load gave under an unknown key is text
UnknownLoadedAsText(d) ==
  \A i \in 1..Len(d) : Unknown(d[i].key) => d[i].val.k = "text"

\* C6 as the specification has it: a key whose FourCC is not one of the
\* known tags is parsed as text on load and dropped on write; after save,
\* the written ilst contains no atom for such a key
C6_UnknownDropped ==
  SaveDone =>
    UnknownAbsent(hist.t, WrittenIlst(AtomInit(file, hist.offset, 1)))

\* C6 as the code has it: a key whose FourCC is not one of the known tags
\* is parsed as text on load and written as text on save; after save, the
\* written ilst contains, for each such key with a text value, an atom
\* named by the key's first four bytes that holds the value as text
C6_UnknownWrittenAsText ==
  /\ UnknownLoadedAsText(loaded.tags.d)
  /\ SaveDone =>
       UnknownKept(file, hist.t, WrittenIlst(AtomInit(file, hist.offset, 1)))

\* C6, its case: a save has written a tag map with the key xxxx, and the
\* load after it has given the key back as text
C6_Witness ==
  /\ SaveDone
  /\ Reloaded
  /\ DictHas(hist.t, K_xxxx)
  /\ loaded.tagerr = "none"
  /\ DictHas(loaded.tags.d, K_xxxx)
  /\ DictGet(loaded.tags.d, K_xxxx) = DictGet(hist.t, K_xxxx)

\* The text of the data atoms of a tag atom of the file f
TextIn(f, atom) ==
  TextOf(ParseData(atom, Read(f, atom.offset + 8, atom.length - 8)).items, 1)

\* The children of ilst named name
ChildrenNamed(ch, name) == {i \in 1..Len(ch) : ch[i].name = name}

\* The last of a nonempty set of places
Last(places) == CHOOSE i \in places : \A j \in places : j <= i

\* The genre that a gnre atom of the file f names, <<>> when it names none
GenreIn(f, atom) ==
  GenreAt(short_be(Slice(Read(f, atom.offset + 8, atom.length - 8), 16, 18))
            - 1)

\* The genre rule on the children ch of the ilst of f and the tag map d
\* that load gave: gnre is no key of d; when the ilst has a ©gen atom with
\* text, d has that text under ©gen; when it has no ©gen atom and d has a
\* ©gen, that is the genre some gnre atom names
GenreRule(f, ch, d) ==
  /\ ~DictHas(d, K_gnre)
  /\ \A i \in ChildrenNamed(ch, K_gen) :
       (i = Last(ChildrenNamed(ch, K_gen)) /\ TextIn(f, ch[i]) # <<>>) =>
         /\ DictHas(d, K_gen)
         /\ DictGet(d, K_gen) = Val("text", TextIn(f, ch[i]))
  /\ (ChildrenNamed(ch, K_gen) = {} /\ DictHas(d, K_gen)) =>
       \E i \in ChildrenNamed(ch, K_gnre) :
         /\ GenreIn(f, ch[i]) # <<>>
         /\ DictGet(d, K_gen) = Val("text", GenreIn(f, ch[i]))

\* The last load has read the tags of the file as it is now
TagsRead == loaded.tagerr = "none" /\ loaded.at = saves

\* C7: the import of the legacy genre never overrides an explicit genre:
\* for an ilst with both a gnre atom and a ©gen text atom, in either order,
\* load yields under ©gen the text of the ©gen atom only; the genre that
\* gnre names is stored under ©gen only when no ©gen is there, and gnre is
\* never stored under its own key
C7_GenreNeverOverrides ==
  TagsRead =>
    GenreRule(file, AtomsGetItem(loaded.atoms, IlstPath).children,
              loaded.tags.d)

\* The ilst has a ©gen atom with text and a gnre atom that names a genre
\* after it
GenThenGnre(f, ch) ==
  \E i \in ChildrenNamed(ch, K_gen) :
    /\ TextIn(f, ch[i]) # <<>>
    /\ \E j \in ChildrenNamed(ch, K_gnre) : i < j /\ GenreIn(f, ch[j]) # <<>>

\* C7, its case: load has read an ilst where a gnre atom that names a
\* genre follows a ©gen text atom, and has given a ©gen
C7_Witness ==
  /\ TagsRead
  /\ GenThenGnre(file, AtomsGetItem(loaded.atoms, IlstPath).children)
  /\ DictHas(loaded.tags.d, K_gen)

\* C9: tag loading and stream info are independent on load: when tag
\* loading fails (moov.udta.meta.ilst is absent, or a metadata error is
\* raised while parsing a tag atom), MP4.load still completes, with stream
\* info populated from the audio track, and the tags are reported as absent
C9_TagFailureKeepsInfo ==
  loaded.tagerr = "MP4MetadataError" =>
    /\ loaded.err = "none"
    /\ loaded.infoerr = "none"
    /\ ~loaded.tags.some
    /\ info.some
    /\ info.length = <<5000, 1000>>

\* C9, its case: the file has an ilst, a tag atom of it has raised a
\* metadata error, and load has completed with stream info and no tags
C9_Witness ==
  /\ loaded.tagerr = "MP4MetadataError"
  /\ loaded.at = saves
  /\ AtomsPath(loaded.atoms, IlstPath) # <<>>
  /\ loaded.err = "none"
  /\ info.some
  /\ ~tags.some

\* The size of the box at offset a as its header in the file f gives it,
\* ext telling whether the header is the extended one: the u64 at a + 8,
\* otherwise the u32 at a
SizeField(f, a, ext) ==
  IF ext THEN ulonglong_be(Read(f, a + 8, 8)) ELSE uint_be(Read(f, a, 4))

\* The header of the box at offset a of the file f is the extended one
Extended(f, a) == uint_be(Read(f, a, 4)) = 1

\* The size field of the box at offset a before the save is, after it and
\* at the offset a2, greater by d
SizeGrown(pre, post, a, a2, d) ==
  SizeField(post, a2, Extended(pre, a))
    = SizeField(pre, a, Extended(pre, a)) + d

\* Every box of the path has its size field greater by d
PathGrown(pre, post, path, d) ==
  \A i \in 1..Len(path) :
    SizeGrown(pre, post, path[i].offset, path[i].offset, d)

\* The boxes that the save leaves in the file and that are not on the
\* path: those before the splice and, for a new meta, all the others; for
\* an existing ilst, those after the end of meta, the last of the path
Others(boxes, path, way, o) ==
  {i \in 1..Len(boxes) :
     /\ \A k \in 1..Len(path) : boxes[i].offset # path[k].offset
     /\ \/ boxes[i].offset + 8 <= o
        \/ way = "new" /\ boxes[i].offset >= o
        \/ boxes[i].offset >= path[Len(path)].offset + path[Len(path)].length}

\* Every other box has its size field as it was, at the place where the
\* splice of d bytes at o has left it
OthersKept(pre, post, boxes, path, way, d, o) ==
  \A i \in Others(boxes, path, way, o) :
    SizeGrown(pre, post, boxes[i].offset,
              IF boxes[i].offset >= o THEN boxes[i].offset + d
              ELSE boxes[i].offset, 0)

SizesFollow(pre, post, boxes, path, way, d, o) ==
  /\ PathGrown(pre, post, path, d)
  /\ OthersKept(pre, post, boxes, path, way, d, o)

\* C10: after a save with splice delta d, the size field of every ancestor
\* on the fix-up path (moov, udta and meta over an existing ilst; moov and,
\* when present, udta for a new meta) is its value before the save plus d,
\* a u32 at the box's offset for a 32-bit header and a u64 at offset + 8
\* for an extended one; the size fields of the boxes not on the path are
\* unchanged
C10_AncestorSizesGrow ==
  Spliced =>
    SizesFollow(hist.pre, file, Boxes(Atoms(hist.pre).atoms), hist.path,
                hist.way, hist.delta, hist.offset)

\* The tfhd boxes under the first moof of a file, in document order
TfhdsOf(f) ==
  LET atoms == Atoms(f).atoms IN
  IF AtomsPath(atoms, <<N_moof>>) = <<>> THEN <<>>
  ELSE Findall(AtomsGetItem(atoms, <<N_moof>>), N_tfhd)

\* The tfhd at offset a has the base-data-offset-present flag
BasePresent(f, a) == Read(f, a + 11, 1)[1] % 2 = 1

\* The base data offset of the tfhd at offset a
BaseOffset(f, a) == ulonglong_be(Read(f, a + 16, 8))

\* The tfhd box at a before the splice of d bytes at o is at a + d after it
\* if it was after o
TfhdShifted(pre, post, box, d, o) ==
  LET a == box.offset
      a2 == IF a > o THEN a + d ELSE a
  IN
  IF BasePresent(pre, a) /\ BaseOffset(pre, a) > o
  THEN BaseOffset(post, a2) = BaseOffset(pre, a) + d
  ELSE Read(post, a2, box.length) = Read(pre, a, box.length)

\* C11: after a save that splices d # 0 bytes at offset o, every tfhd under
\* moof whose flags have the base-data-offset-present bit and whose base
\* data offset b is above o has base data offset b + d; a tfhd without the
\* flag, or with b <= o, keeps its bytes
C11_TfhdFollowsSplice ==
  Spliced =>
    \A k \in 1..Len(TfhdsOf(hist.pre)) :
      TfhdShifted(hist.pre, file, TfhdsOf(hist.pre)[k], hist.delta,
                  hist.offset)

\* The atoms moov, udta, meta, ilst of the file before the last save
PrePath == AtomsPath(Atoms(hist.pre).atoms, IlstPath)

\* The contiguous range of the free atom just before ilst among the
\* children of meta, if there is one, ilst, and the free atom just after it,
\* if there is one
Neighbours(meta) ==
  LET kids == meta.children
      i == FirstNamed(kids, N_ilst)
      before == i > 1 /\ kids[i - 1].name = N_free
      after == i < Len(kids) /\ kids[i + 1].name = N_free
  IN [offset |-> IF before THEN kids[i - 1].offset ELSE kids[i].offset,
      length |-> kids[i].length
                   + (IF before THEN kids[i - 1].length ELSE 0)
                   + (IF after THEN kids[i + 1].length ELSE 0)]

\* The region of a path is the range of ilst and its free neighbours, and
\* the save wrote at its start
RegionIsNeighbours(path, offset) ==
  /\ Region(path[3], path[4]) = Neighbours(path[3])
  /\ offset = Neighbours(path[3]).offset
  /\ offset <= path[4].offset

\* C14: in a save over an existing ilst, the region that is replaced is the
\* contiguous range of the free atom just before ilst among meta's children
\* (if any), ilst, and the free atom just after it (if any): it starts at or
\* before ilst, its length counts each atom once, for every position of
\* ilst among the children of meta
C14_RegionIsIlstAndFreeNeighbours ==
  SavedOverTags => RegionIsNeighbours(PrePath, hist.offset)

\* The ilst that the last save rendered
NewIlst == RenderIlst(hist.t).data

\* The range of ilst and its free neighbours in the file before the last
\* save
OldRegion == Neighbours(PrePath[3])

\* The last save replaced an ilst by one that is shorter than the region by
\* 8 bytes or more
Shrunk == SavedOverTags /\ Len(NewIlst) + 8 <= OldRegion.length

\* The file post is the file pre with the bytes of the region replaced by
\* the data and a free atom that fills the region
FilledInPlace(pre, post, data, reg) ==
  post = SubSeq(pre, 1, reg.offset) \o data
           \o AtomRender(N_free, Zeros(reg.length - Len(data) - 8))
           \o SubSeq(pre, reg.offset + reg.length + 1, Len(pre))

\* No entry of an stco or co64 table under moov and no tfhd under moof
\* differs between the files pre and post
TablesKept(pre, post) ==
  /\ MoovTablesShifted(pre, post,
                       AtomsGetItem(Atoms(pre).atoms, <<N_moov>>), 0, 0)
  /\ \A k \in 1..Len(TfhdsOf(pre)) :
       TfhdShifted(pre, post, TfhdsOf(pre)[k], 0, 0)

\* C12: in-place save: when the new ilst is shorter than the region (ilst
\* and its adjacent free siblings) by at least 8 bytes, save appends a free
\* atom of old_len - need - 8 payload bytes, empty for a shrink of exactly
\* 8, so that exactly old_len bytes are written at the region's offset;
\* delta is 0, the length of the file is unchanged, no ancestor's size
\* changes and no stco, co64 or tfhd entry changes
C12_InPlaceFillsRegion ==
  Shrunk =>
    /\ hist.way = "inplace"
    /\ hist.delta = 0
    /\ hist.offset = OldRegion.offset
    /\ Len(file) = Len(hist.pre)
    /\ FilledInPlace(hist.pre, file, NewIlst, OldRegion)
    /\ PathGrown(hist.pre, file, SubSeq(PrePath, 1, 3), 0)
    /\ TablesKept(hist.pre, file)

\* The next multiple of 1024 from n on
Boundary(n) == ((n + 1023) \div 1024) * 1024

\* The data with the free atom that pads its payload to that boundary
Padded(data) ==
  data \o AtomRender(N_free, Zeros(Boundary(Len(data)) - Len(data)))

\* The last save replaced an ilst by one that is longer than the region, or
\* shorter than it by 1 to 7 bytes
Outgrown ==
  /\ SavedOverTags
  /\ \/ Len(NewIlst) > OldRegion.length
     \/ OldRegion.length - Len(NewIlst) \in 1..7

\* The file post is the file pre grown by d bytes, with the data at the
\* start of the region
GrownAt(pre, post, data, reg, d) ==
  /\ d = Len(data) - reg.length
  /\ d > 0
  /\ Len(post) = Len(pre) + d
  /\ Read(post, reg.offset, Len(data)) = data
  /\ SubSeq(post, 1, 8) = SubSeq(pre, 1, 8)

\* C13: growing save: when the new ilst is longer than the region, or
\* shorter than it by 1 to 7 bytes, save pads it with a free atom of
\* ((need + 1023) & ~1023) - need zero payload bytes, and the file grows by
\* exactly delta = padded_need - old_len bytes inserted at the start of the
\* region, with delta > 0
C13_GrowPadsAndInserts ==
  Outgrown =>
    /\ hist.way = "grow"
    /\ hist.offset = OldRegion.offset
    /\ GrownAt(hist.pre, file, Padded(NewIlst), OldRegion, hist.delta)

\* The last save ran to its end on a file without moov.udta.meta.ilst
SavedNew == hist.err = "none" /\ hist.way = "new"

\* The atom child is the first child of the atom parent of the file f
FirstChildOf(f, parent, child) ==
  /\ parent.children # <<>>
  /\ parent.children[1] = child
  /\ child.offset = parent.offset + HeaderLen(f, parent.offset)
                      + _SKIP_SIZE(parent.name)

\* The synthesized meta: 4 zero bytes, hdlr, the ilst, free padding
MetaHolds(f, meta, ilst, data) ==
  /\ Read(f, meta.offset + 8, 4) = Zeros(4)
  /\ Len(meta.children) = 3
  /\ meta.children[1].name = N_hdlr
  /\ meta.children[2] = ilst
  /\ meta.children[3].name = N_free
  /\ Read(f, ilst.offset, ilst.length) = data

\* The path moov, udta, meta, ilst of the file f leads to the new meta, the
\* first child of udta, which is the first child of moov when it is new
ResolvesNew(f, path, data, hadUdta) ==
  /\ path # <<>>
  /\ FirstChildOf(f, path[2], path[3])
  /\ hadUdta \/ FirstChildOf(f, path[1], path[2])
  /\ MetaHolds(f, path[3], path[4], data)

\* C15: when the file has no moov.udta.meta.ilst, save inserts a
\* synthesized meta (4 zero bytes, hdlr, ilst, free padding) as the first
\* child of moov.udta if udta exists, otherwise wrapped in a new udta
\* inserted as the first child of moov; parsing the file after the save
\* resolves moov.udta.meta.ilst to the newly written ilst, for parents with
\* 32-bit and with extended size headers
C15_NewIlstResolves ==
  SavedNew =>
    /\ Atoms(file).err = "none"
    /\ ResolvesNew(file, AtomsPath(Atoms(file).atoms, IlstPath), NewIlst,
                   AtomsPath(Atoms(hist.pre).atoms, <<N_moov, N_udta>>)
                     # <<>>)

\* The end of an atom
EndOf(atom) == atom.offset + atom.length

\* The children of a container end where the container ends
Tiled(atom) ==
  (atom.name \in _CONTAINERS /\ atom.children # <<>>) =>
    EndOf(atom.children[Len(atom.children)]) = EndOf(atom)

\* The atom after a container in a list of siblings starts where the
\* container ends
SiblingsFollow(atoms) ==
  \A i \in 1..(Len(atoms) - 1) :
    atoms[i].name \in _CONTAINERS => atoms[i + 1].offset = EndOf(atoms[i])

\* Every container of a list of atoms is tiled, and so are its siblings
AllTiled(boxes) ==
  \A i \in 1..Len(boxes) :
    Tiled(boxes[i]) /\ SiblingsFollow(boxes[i].children)

\* C16: the children of a container tile its interior: when a child ends
\* past the end of its parent, or the children stop short of it, the parse
\* fails; in every tree that a parse returned, the last child of each
\* container ends at the container's offset + length and the next sibling
\* of a container starts there
C16_ChildrenTileContainer ==
  loaded.parse = "none" =>
    SiblingsFollow(loaded.atoms) /\ AllTiled(Boxes(loaded.atoms))

\* The index that a gnre atom of the file f carries, as a signed 16-bit
\* number
GenreIndex(f, atom) ==
  short_be(Slice(Read(f, atom.offset + 8, atom.length - 8), 16, 18))

\* The ilst children ch of the file f have gnre atoms, each with an index
\* outside 1..Len(GENRES), and no ©gen atom
OnlyBadGenres(f, ch) ==
  /\ ChildrenNamed(ch, K_gnre) # {}
  /\ ChildrenNamed(ch, K_gen) = {}
  /\ \A i \in ChildrenNamed(ch, K_gnre) :
       GenreIndex(f, ch[i]) \notin 1..Len(GENRES)

\* The last load has read the ilst of the file as it is now
IlstRead ==
  /\ loaded.at = saves
  /\ loaded.tagerr \notin {"never", "skipped"}
  /\ AtomsPath(loaded.atoms, IlstPath) # <<>>

\* C17: when a gnre atom carries an index outside the range of the genre
\* table (0 or negative as a signed 16-bit value, or greater than the size
\* of the table), load imports no genre: no ©gen key is stored and no
\* error is raised
C17_BadGenreIndexImportsNone ==
  (IlstRead
     /\ OnlyBadGenres(file, AtomsGetItem(loaded.atoms, IlstPath).children))
    => (loaded.tagerr = "none" /\ ~DictHas(loaded.tags.d, K_gen))

\* The construction of an Atom at the position pos of the file f has failed
\* or has left the read position after pos
Advances(f, pos, level) ==
  \/ AtomInit(f, pos, level).err \notin {"none", "diverges"}
  \/ AtomInit(f, pos, level).err = "none" /\ AtomInit(f, pos, level).pos > pos

\* The atom at the start of the file and the one after it advance
TopAdvances(f) ==
  /\ Advances(f, 0, 0)
  /\ AtomInit(f, 0, 0).err = "none" => Advances(f, AtomInit(f, 0, 0).pos, 0)

\* C18: parsing terminates on every finite file: the construction of a Box
\* either fails or leaves the read position strictly after the offset of
\* the box, so the loop over the file and the loop over the children of a
\* container reach their end; no size encoding, an extended 64-bit size
\* smaller than the header included, makes the parser read the same offset
\* again for ever
C18_ParseTerminates ==
  loaded.parse # "never" =>
    (loaded.parse # "diverges" /\ TopAdvances(file))

\* C8: every Box of a tree that a successful parse returned has a length of
\* at least 8, whichever way its size was encoded (32-bit size, size field 1
\* and a 64-bit size, size 0 at the top level); a size that resolves below
\* 8 makes the parse fail
C8_BoxLengthAtLeast8 ==
  loaded.parse = "none" => ShortBoxes(Boxes(loaded.atoms)) = {}

====
